---- MODULE Spec2Model ----
(***************************************************************************)
(* Model of the jpegsegs library (src/jpegsegs.go) and of the jpegsegscopy *)
(* program (src/jpegsegscopy/jpegsegscopy.go).                             *)
(*                                                                         *)
(* A stream is a sequence of bytes (naturals 0..255); a stream position is *)
(* the number of bytes before it (0-based, as io.Seeker reports it).       *)
(***************************************************************************)
EXTENDS Integers, Sequences, FiniteSets, TLC

(***************************************************************************)
(* Bounds of the model.                                                    *)
(***************************************************************************)
\* largest number of tokens in the body of a generated input stream
MaxTok == 4
\* largest length of a byte sequence given to the byte-stuffing transform
MaxData == 4
\* largest number of images in an MPF file
MaxImages == 3

(***************************************************************************)
(* Program constants.                                                      *)
(***************************************************************************)
TEM == 1
RST0 == 208
SOI == 216
EOI == 217
SOS == 218
APP0 == 224
COM == 254
FF == 255
HeaderSize == 2
blocksize == 10000
\* 2<<15 - 3, the size of the Scanner's buffer
ScannerBufSize == 65533
\* 2<<15, the first length WriteData refuses
WriteDataLimit == 65536
\* 2^16: a uint32 overflows when its value divided by Half reaches Half
Half == 256 * 256

Min(a, b) == IF a < b THEN a ELSE b

(***************************************************************************)
(* io.Reader / io.Seeker over a byte sequence                              *)
(***************************************************************************)
\* io.ReadFull(reader, buf[0:n]) with the reader at position p of s:
\* the n bytes and the new position, or EOF (nothing left) /
\* ErrUnexpectedEOF (fewer than n left). Reading 0 bytes always succeeds.
\* A reader that was moved past the end of s has nothing left.
ReadFull(s, p, n) ==
  LET avail == Len(s) - p IN
  IF avail >= n
    THEN [bytes |-> SubSeq(s, p + 1, p + n), pos |-> p + n, err |-> "none"]
    ELSE [bytes |-> SubSeq(s, p + 1, Len(s)), pos |-> IF avail > 0 THEN Len(s) ELSE p,
          err |-> IF avail <= 0 THEN "EOF" ELSE "ErrUnexpectedEOF"]

\* mutant: the search starts one byte late
IndexByteLate(buf, from, c) ==
  LET hits == {k \in (from + 1)..(Len(buf) - 1) : buf[k + 1] = c} IN
  IF hits = {} THEN -1 ELSE CHOOSE k \in hits : \A j \in hits : k <= j

\* bytes.IndexByte(buf[from:], c) + from, or -1: 0-based index of the first
\* c at or after index from.
IndexByte(buf, from, c) ==
  LET hits == {k \in from..(Len(buf) - 1) : buf[k + 1] = c} IN
  IF hits = {} THEN -1 ELSE CHOOSE k \in hits : \A j \in hits : k <= j

\* writer.Write(bytes) at position p of out: overwrites what is there and
\* extends the stream past its end.
WriteAt(out, p, bytes) ==
  [k \in 1..(IF p + Len(bytes) > Len(out) THEN p + Len(bytes) ELSE Len(out)) |->
     IF k > p /\ k <= p + Len(bytes) THEN bytes[k - p] ELSE out[k]]

(***************************************************************************)
(* Primitive codec                                                         *)
(***************************************************************************)
IsJPEGHeader(buf) == buf[1] = FF /\ buf[2] = SOI

ReadHeader(s, p) ==
  LET r == ReadFull(s, p, 2) IN
  IF r.err # "none" THEN [pos |-> r.pos, err |-> r.err]
  ELSE IF ~IsJPEGHeader(r.bytes) THEN [pos |-> r.pos, err |-> "SOI marker not found"]
  ELSE [pos |-> r.pos, err |-> "none"]

\* The fill-byte loop of ReadMarker: b is the byte last read (buf[0] after
\* buf = buf[1:2]), p the reader position.
RECURSIVE SkipFill(_, _, _)
SkipFill(s, p, b) ==
  IF b # FF THEN [b |-> b, pos |-> p, err |-> "none"]
  ELSE IF p >= Len(s) THEN [b |-> b, pos |-> p, err |-> "EOF"]
  ELSE SkipFill(s, p + 1, s[p + 1])

\* mutant: the byte after the first 0xFF is the marker, fill byte or not
ReadMarkerNoFill(s, p) ==
  LET r == ReadFull(s, p, 2) IN
  IF r.err # "none" THEN [marker |-> 0, pos |-> r.pos, err |-> r.err]
  ELSE IF r.bytes[1] # FF
    THEN [marker |-> 0, pos |-> r.pos, err |-> "0xFF expected in marker"]
  ELSE IF r.bytes[2] = 0 THEN [marker |-> 0, pos |-> r.pos, err |-> "Invalid marker 0"]
  ELSE [marker |-> r.bytes[2], pos |-> r.pos, err |-> "none"]

ReadMarker(s, p) ==
  LET r == ReadFull(s, p, 2) IN
  IF r.err # "none" THEN [marker |-> 0, pos |-> r.pos, err |-> r.err]
  ELSE IF r.bytes[1] # FF
    THEN [marker |-> 0, pos |-> r.pos, err |-> "0xFF expected in marker"]
  ELSE LET f == SkipFill(s, r.pos, r.bytes[2]) IN
    IF f.err # "none" THEN [marker |-> 0, pos |-> f.pos, err |-> f.err]
    ELSE IF f.b = 0 THEN [marker |-> 0, pos |-> f.pos, err |-> "Invalid marker 0"]
    ELSE [marker |-> f.b, pos |-> f.pos, err |-> "none"]

WriteMarker(marker) == <<FF, marker>>

\* The array behind scanner.buf is modelled by the bytes written to its
\* front; the rest of it is as make left it, zero.
ArrayRead(array, n) ==
  IF n <= Len(array) THEN SubSeq(array, 1, n)
  ELSE array \o [k \in 1..(n - Len(array)) |-> 0]

\* copy(array, bytes), and what a read into array[0:n] leaves in the array
Overlay(array, bytes) == bytes \o SubSeq(array, Len(bytes) + 1, Len(array))

\* mutant: the length field is taken as the length of the payload
ReadDataWholeLength(s, p, cap, array) ==
  LET r == ReadFull(s, p, 2) IN
  IF cap < 2 THEN [data |-> <<>>, present |-> FALSE, pos |-> p, err |-> "panic"]
  ELSE IF r.err # "none"
    THEN [data |-> <<>>, present |-> FALSE, pos |-> r.pos, err |-> r.err]
  ELSE LET length == r.bytes[1] * 256 + r.bytes[2] IN
    IF length > cap
      THEN [data |-> <<>>, present |-> FALSE, pos |-> r.pos, err |-> "panic"]
    ELSE LET d == ReadFull(s, r.pos, length) IN
      [data |-> IF d.err = "none" THEN d.bytes
                ELSE ArrayRead(Overlay(Overlay(array, r.bytes), d.bytes), length),
       present |-> TRUE, pos |-> d.pos, err |-> d.err]

\* ReadData with a buffer of capacity cap whose array holds array.
\* buf[0:length] panics (slice bounds out of range) when length is negative
\* or exceeds the capacity. On a short read the whole slice buf[0:length]
\* is returned with the error: the bytes that were read and after them
\* what the array held, its first two bytes being the length field.
ReadData(s, p, cap, array) ==
  LET r == ReadFull(s, p, 2) IN
  IF cap < 2 THEN [data |-> <<>>, present |-> FALSE, pos |-> p, err |-> "panic"]
  ELSE IF r.err # "none"
    THEN [data |-> <<>>, present |-> FALSE, pos |-> r.pos, err |-> r.err]
  ELSE LET length == r.bytes[1] * 256 + r.bytes[2] - 2 IN
    IF length < 0 \/ length > cap
      THEN [data |-> <<>>, present |-> FALSE, pos |-> r.pos, err |-> "panic"]
    ELSE LET d == ReadFull(s, r.pos, length) IN
      [data |-> IF d.err = "none" THEN d.bytes
                ELSE ArrayRead(Overlay(Overlay(array, r.bytes), d.bytes), length),
       present |-> TRUE, pos |-> d.pos, err |-> d.err]

\* mutant: the length field counts the payload only, not its own two bytes
WriteDataPayloadLength(buf) ==
  LET len == Len(buf) + 2 IN
  IF len >= WriteDataLimit
    THEN [bytes |-> <<>>, err |-> "writeData: data is too long"]
    ELSE [bytes |-> <<Len(buf) \div 256, Len(buf) % 256>> \o buf, err |-> "none"]

\* WriteData: the bytes written, or the too-long error with nothing written.
WriteData(buf) ==
  LET len == Len(buf) + 2 IN
  IF len >= WriteDataLimit
    THEN [bytes |-> <<>>, err |-> "writeData: data is too long"]
    ELSE [bytes |-> <<len \div 256, len % 256>> \o buf, err |-> "none"]

(***************************************************************************)
(* Byte-stuffing transform                                                 *)
(***************************************************************************)
\* mutant: the buffer is reallocated to the required size every time
checkbufExact(cap, reqsize) == reqsize

\* checkbuf: the capacity of the buffer it returns (capacities stay far
\* below 2^32, so current * 2 does not wrap).
checkbuf(cap, reqsize) ==
  IF cap < reqsize
    THEN LET newsize == cap * 2 IN
         IF newsize < reqsize THEN reqsize ELSE newsize
    ELSE cap

\* mutant: the escaping 0x00 is left in the buffer
DropByteKept(buf, i) == buf

\* copy(buf[i:], buf[i+1:end]) followed by end--: buf[0:end] without the
\* byte at index i.
DropByte(buf, i) == SubSeq(buf, 1, i) \o SubSeq(buf, i + 2, Len(buf))

\* mutant: the deleted 0x00 bytes are left out of the position
MarkerPosNoSkipped(readpos, bufpos, skipped) == readpos + bufpos

\* Where ReadImageData leaves the reader when it has found a marker:
\* readpos + int64(bufpos + skipped).
MarkerPos(readpos, bufpos, skipped) == readpos + bufpos + skipped

\* mutant: the reader is left after an 0xFF that ends a block
SeekBackNone(fpos) == fpos

\* reader.Seek(-1, io.SeekCurrent) when 0xFF is the last byte of a block:
\* the next block starts with that byte.
SeekBack(fpos) == fpos - 1

RECURSIVE NextBlock(_, _, _, _, _, _, _, _, _)
RECURSIVE NextIndex(_, _, _, _, _, _, _, _, _, _)

\* One pass of the NEXTINDEX loop. buf holds buf[0:end] (Len(buf) = end),
\* rest what the array holds from index end on, fpos is the reader
\* position after the block read, count the number of bytes that read
\* returned. The deletion of an escaping 0x00 moves buf[i+1:end] down by
\* one and leaves the last byte of buf[0:end] where it was, now beyond
\* end. A block read that returned the single byte 0xFF seeks back over it
\* and reads it again in the same state, forever: that outcome is reported
\* as err = "hang".
NextIndex(s, readpos, bs, buf, bufpos, fpos, skipped, cap, count, rest) ==
  LET end == Len(buf)
      ffpos == IndexByte(buf, bufpos, FF)
  IN
  IF ffpos = -1
    THEN NextBlock(s, readpos, bs, buf, end, fpos, skipped, cap, rest)
  ELSE IF ffpos = end - 1
    THEN IF count = 1
      THEN [data |-> <<>>, present |-> FALSE, pos |-> fpos - 1, err |-> "hang", cap |-> cap,
            array |-> <<>>]
      ELSE NextBlock(s, readpos, bs, SubSeq(buf, 1, ffpos), ffpos, SeekBack(fpos), skipped, cap,
                     <<FF>> \o rest)
  ELSE IF buf[ffpos + 2] = 0
    THEN NextIndex(s, readpos, bs, DropByte(buf, ffpos + 1),
                   ffpos + 1, fpos, skipped + 1, cap, count, <<buf[end]>> \o rest)
  ELSE [data |-> SubSeq(buf, 1, ffpos), present |-> TRUE,
        pos |-> MarkerPos(readpos, ffpos, skipped), err |-> "none", cap |-> cap,
        array |-> buf \o rest]

\* One pass of the NEXTBLOCK loop. buf holds buf[0:bufpos], rest what the
\* array holds from index bufpos on; checkbuf copies the array when it
\* reallocates, and the block is read over the front of rest. An error
\* returns a nil buffer.
NextBlock(s, readpos, bs, buf, bufpos, fpos, skipped, cap, rest) ==
  IF (bufpos + bs) \div Half >= Half
    THEN [data |-> <<>>, present |-> FALSE, pos |-> fpos,
          err |-> "Read ~4GB image data without finding a terminating marker", cap |-> 0,
          array |-> <<>>]
  ELSE LET cap1 == checkbuf(cap, bufpos + bs) IN
    IF fpos >= Len(s)
      THEN [data |-> <<>>, present |-> FALSE, pos |-> fpos, err |-> "EOF", cap |-> 0,
            array |-> <<>>]
      ELSE LET count == Min(bs, Len(s) - fpos) IN
        NextIndex(s, readpos, bs, buf \o SubSeq(s, fpos + 1, fpos + count),
                  bufpos, fpos + count, skipped, cap1, count,
                  SubSeq(rest, count + 1, Len(rest)))

\* ReadImageData with block size bs, the reader at position p of s and a
\* buffer of capacity cap (0 stands for a nil buffer, for which a new
\* array is made) whose array holds array. The result carries the
\* capacity and the array of the returned buffer (capacity 0: nil,
\* returned with an error).
ReadImageDataBS(s, p, cap, bs, array) ==
  NextBlock(s, p, bs, <<>>, 0, p, 0, IF cap = 0 THEN bs ELSE cap,
            IF cap = 0 THEN <<>> ELSE array)

ReadImageData(s, p, cap, array) == ReadImageDataBS(s, p, cap, blocksize, array)

\* mutant: an 0xFF that ends the buffer is written without its 0x00
RECURSIVE WriteImageDataNoLastEscape(_, _)
WriteImageDataNoLastEscape(buf, bufpos) ==
  LET ffpos == IndexByte(buf, bufpos, FF) IN
  IF ffpos = -1 \/ ffpos = Len(buf) - 1 THEN SubSeq(buf, bufpos + 1, Len(buf))
  ELSE SubSeq(buf, bufpos + 1, ffpos + 1) \o <<0>> \o WriteImageDataNoLastEscape(buf, ffpos + 1)

\* The bytes WriteImageData writes for buf, from index bufpos on.
RECURSIVE WriteImageDataFrom(_, _)
WriteImageDataFrom(buf, bufpos) ==
  LET ffpos == IndexByte(buf, bufpos, FF) IN
  IF ffpos = -1 THEN SubSeq(buf, bufpos + 1, Len(buf))
  ELSE SubSeq(buf, bufpos + 1, ffpos + 1) \o <<0>> \o WriteImageDataFrom(buf, ffpos + 1)

WriteImageData(buf) == WriteImageDataFrom(buf, 0)

(***************************************************************************)
(* Scanner and Dumper                                                      *)
(***************************************************************************)
IsRST(m) == m >= RST0 /\ m <= RST0 + 7

\* mutant: every marker from RST0 up to SOS switches to image data
ExpectsImageDataUpToSOS(m) == m >= RST0 /\ m <= SOS

\* Scan expects image data after this marker (scanner.imageData).
ExpectsImageData(m) == m = SOS \/ IsRST(m)

\* mutant: SOS is taken to have no segment either
NoPayloadWithSOS(m) == m = EOI \/ m = TEM \/ IsRST(m) \/ m = SOS

\* Scan returns this marker with a nil slice, reading no segment.
NoPayload(m) == m = EOI \/ m = TEM \/ IsRST(m)

\* NewScanner on a reader at position p of s: the Scanner's reader
\* position, mode, buffer capacity and buffer contents (ReadHeader reads
\* into the buffer), or the header error.
NewScannerAt(s, p) ==
  LET h == ReadHeader(s, p) IN
  [pos |-> h.pos, imageData |-> FALSE, cap |-> ScannerBufSize,
   array |-> Overlay(<<>>, ReadFull(s, p, 2).bytes),
   st |-> IF h.err = "none" THEN "ready" ELSE "failed", err |-> h.err]

\* The scan-data region that starts at position p of s, unstuffed in one
\* pass: the data, where the pass stopped and on what ("marker", "EOF",
\* or "0xFF" for an 0xFF that is the last byte of the stream).
RECURSIVE Unstuff(_, _, _)
Unstuff(s, p, acc) ==
  IF p >= Len(s) THEN [data |-> acc, pos |-> p, at |-> "EOF"]
  ELSE IF s[p + 1] # FF THEN Unstuff(s, p + 1, Append(acc, s[p + 1]))
  ELSE IF p + 1 >= Len(s) THEN [data |-> acc, pos |-> p, at |-> "0xFF"]
  ELSE IF s[p + 2] = 0 THEN Unstuff(s, p + 2, Append(acc, FF))
  ELSE [data |-> acc, pos |-> p, at |-> "marker"]

\* The array behind scanner.buf after Scan has run in state sc on stream s.
ScannerArray(s, sc, array) ==
  IF sc.imageData THEN ReadImageData(s, sc.pos, sc.cap, array).array
  ELSE LET r == ReadFull(s, sc.pos, 2)
           a1 == Overlay(array, r.bytes)
       IN IF r.err # "none" \/ r.bytes[1] # FF THEN a1
          ELSE LET f == SkipFill(s, r.pos, r.bytes[2])
                   a2 == Overlay(a1, <<FF, f.b>>)
               IN IF f.err # "none" \/ f.b = 0 \/ NoPayload(f.b) THEN a2
                  ELSE LET l == ReadFull(s, f.pos, 2)
                           a3 == Overlay(a2, l.bytes)
                           d == ReadData(s, f.pos, sc.cap, a2)
                       IN IF l.err # "none" \/ d.err = "panic" THEN a3
                          ELSE Overlay(a3, d.data)

\* Scanner.Scan on stream s with the Scanner in state sc (reader position,
\* imageData flag, buffer capacity and contents): the Scanner's new state and the
\* returned (marker, data, error); present = FALSE is a nil data slice.
ScanCall(s, sc) ==
  LET a == ScannerArray(s, sc, sc.array) IN
  IF sc.imageData
    THEN LET r == ReadImageData(s, sc.pos, sc.cap, sc.array) IN
      IF r.err # "none"
        THEN [pos |-> r.pos, imageData |-> TRUE, cap |-> r.cap, array |-> a,
              marker |-> 0, data |-> <<>>, present |-> FALSE, err |-> r.err]
      ELSE IF Len(r.data) = 0
        THEN [pos |-> r.pos, imageData |-> TRUE, cap |-> r.cap, array |-> a,
              marker |-> 0, data |-> <<>>, present |-> FALSE, err |-> "Expecting image data"]
      ELSE [pos |-> r.pos, imageData |-> FALSE, cap |-> r.cap, array |-> a,
            marker |-> 0, data |-> r.data, present |-> TRUE, err |-> "none"]
    ELSE LET m == ReadMarker(s, sc.pos) IN
      IF m.err # "none"
        THEN [pos |-> m.pos, imageData |-> FALSE, cap |-> sc.cap, array |-> a,
              marker |-> 0, data |-> <<>>, present |-> FALSE, err |-> m.err]
      ELSE LET img == ExpectsImageData(m.marker) IN
        IF NoPayload(m.marker)
          THEN [pos |-> m.pos, imageData |-> img, cap |-> sc.cap, array |-> a,
                marker |-> m.marker, data |-> <<>>, present |-> FALSE, err |-> "none"]
          ELSE LET d == ReadData(s, m.pos, sc.cap, Overlay(sc.array, <<FF, m.marker>>)) IN
            [pos |-> d.pos, imageData |-> img, cap |-> sc.cap, array |-> a,
             marker |-> m.marker, data |-> d.data, present |-> d.present, err |-> d.err]

\* The (marker, data, error) triple a Scan call returned.
Returned(c) == [marker |-> c.marker, data |-> c.data, present |-> c.present, err |-> c.err]

\* mutant: the segment is written whether or not the slice is nil
DumpCallAlwaysSegment(marker, buf, present) ==
  IF marker = 0 THEN [bytes |-> WriteImageData(buf), err |-> "none"]
  ELSE LET w == WriteData(buf) IN
       [bytes |-> WriteMarker(marker) \o w.bytes, err |-> w.err]

\* mutant: an empty payload is not written
DumpCallSkipsEmpty(marker, buf, present) ==
  IF marker = 0 THEN [bytes |-> WriteImageData(buf), err |-> "none"]
  ELSE IF present /\ Len(buf) > 0
    THEN LET w == WriteData(buf) IN
         [bytes |-> WriteMarker(marker) \o w.bytes, err |-> w.err]
    ELSE [bytes |-> WriteMarker(marker), err |-> "none"]

\* mutant: the marker is not written when the segment is too long
DumpCallAllOrNothing(marker, buf, present) ==
  IF marker = 0 THEN [bytes |-> WriteImageData(buf), err |-> "none"]
  ELSE IF present
    THEN LET w == WriteData(buf) IN
         IF w.err # "none" THEN w
         ELSE [bytes |-> WriteMarker(marker) \o w.bytes, err |-> w.err]
    ELSE [bytes |-> WriteMarker(marker), err |-> "none"]

\* The bytes Dumper.Dump writes for (marker, buf), and its error. The
\* marker bytes are written before WriteData can fail.
DumpCall(marker, buf, present) ==
  IF marker = 0 THEN [bytes |-> WriteImageData(buf), err |-> "none"]
  ELSE IF present
    THEN LET w == WriteData(buf) IN
         [bytes |-> WriteMarker(marker) \o w.bytes, err |-> w.err]
    ELSE [bytes |-> WriteMarker(marker), err |-> "none"]

(***************************************************************************)
(* uint32 arithmetic. A uint32 is the pair <<hi, lo>> of its 16-bit        *)
(* halves, so that sums and differences wrap as they do in the program.    *)
(***************************************************************************)
\* uint32(n) for 0 <= n < 2^31
U32(n) == <<n \div Half, n % Half>>
\* int64(a), for a below 2^31
Int64(a) == a[1] * Half + a[2]
\* mutant: the carry into the high half is lost
Add32NoCarry(a, b) == <<(a[1] + b[1]) % Half, (a[2] + b[2]) % Half>>

Add32(a, b) ==
  LET lo == a[2] + b[2] IN <<(a[1] + b[1] + lo \div Half) % Half, lo % Half>>
\* mutant: the borrow from the high half is lost
Sub32NoBorrow(a, b) == <<(a[1] - b[1] + Half) % Half, (a[2] - b[2] + Half) % Half>>

Sub32(a, b) ==
  LET lo == a[2] - b[2]
      borrow == IF lo < 0 THEN 1 ELSE 0
  IN <<(a[1] - b[1] - borrow + Half) % Half, (lo + Half) % Half>>
\* k * a for a small factor k
Mul32(k, a) ==
  LET lo == k * a[2] IN <<(k * a[1] + lo \div Half) % Half, lo % Half>>
Lt32(a, b) == a[1] < b[1] \/ (a[1] = b[1] /\ a[2] < b[2])
Zero32 == <<0, 0>>

(***************************************************************************)
(* The tag-directory codec (package tiff66, outside this repository): a    *)
(* directory is an IFDNode [Order, Fields], a field [Tag, Type, Count,     *)
(* Data]. Its serialized form is a TIFF header and one IFD: the entry      *)
(* count, 12 bytes per field (values of at most 4 bytes inline, longer     *)
(* ones by offset into the data area after the IFD) and a zero next-IFD    *)
(* offset.                                                                 *)
(***************************************************************************)
Orders == {"BE", "LE"}
TiffHeaderSize == 8
TypeSHORT == 3
TypeLONG == 4
TypeUNDEFINED == 7
TypeSize(type) == IF type = TypeSHORT THEN 2 ELSE IF type = TypeLONG THEN 4 ELSE 1

ShortBytes(v, order) ==
  IF order = "BE" THEN <<v \div 256, v % 256>> ELSE <<v % 256, v \div 256>>
LongBytes(a, order) ==
  IF order = "BE" THEN ShortBytes(a[1], order) \o ShortBytes(a[2], order)
  ELSE ShortBytes(a[2], order) \o ShortBytes(a[1], order)
\* the 16-bit value at byte offset at of buf
GetShort(buf, at, order) ==
  IF order = "BE" THEN buf[at + 1] * 256 + buf[at + 2] ELSE buf[at + 2] * 256 + buf[at + 1]
\* the uint32 at byte offset at of buf
GetLong(buf, at, order) ==
  IF order = "BE" THEN <<GetShort(buf, at, order), GetShort(buf, at + 2, order)>>
  ELSE <<GetShort(buf, at + 2, order), GetShort(buf, at, order)>>

Zeros(n) == [k \in 1..n |-> 0]

\* Field.Long(i, order): the i-th uint32 of the field's data; the slice
\* expression panics when the data is too short.
FieldLong(f, i, order) ==
  IF 4 * i + 4 > Len(f.Data) THEN [v |-> Zero32, err |-> "panic"]
  ELSE [v |-> GetLong(f.Data, 4 * i, order), err |-> "none"]

\* Field.PutLong(v, i, order): the field's data with its i-th uint32
\* overwritten in place.
FieldPutLong(f, v, i, order) ==
  IF 4 * i + 4 > Len(f.Data) THEN [f |-> f, err |-> "panic"]
  ELSE [f |-> [f EXCEPT !.Data = WriteAt(f.Data, 4 * i, LongBytes(v, order))],
        err |-> "none"]

\* Bytes of the data area: the data of every field longer than 4 bytes.
RECURSIVE DataArea(_, _)
DataArea(fields, k) ==
  IF k > Len(fields) THEN <<>>
  ELSE (IF Len(fields[k].Data) > 4 THEN fields[k].Data ELSE <<>>) \o DataArea(fields, k + 1)

\* IFDNode.TreeSize(): it depends on the number of fields and on the
\* lengths of their data, not on the values stored.
TreeSize(node) == 2 + 12 * Len(node.Fields) + 4 + Len(DataArea(node.Fields, 1))

\* The 12-byte entries of fields k.., the data area starting at dataPos.
RECURSIVE IFDEntries(_, _, _, _)
IFDEntries(fields, k, dataPos, order) ==
  IF k > Len(fields) THEN <<>>
  ELSE LET f == fields[k]
           long == Len(f.Data) > 4
           value == IF long THEN LongBytes(U32(dataPos), order)
                    ELSE f.Data \o Zeros(4 - Len(f.Data))
       IN ShortBytes(f.Tag, order) \o ShortBytes(f.Type, order)
            \o LongBytes(U32(f.Count), order) \o value
            \o IFDEntries(fields, k + 1, IF long THEN dataPos + Len(f.Data) ELSE dataPos, order)

\* tiff.PutHeader and IFDNode.PutIFDTree(buf, tiff.HeaderSize): the bytes of
\* the header and of the IFD written at offset 8.
TiffBytes(node) ==
  LET n == Len(node.Fields)
      mark == IF node.Order = "BE" THEN <<77, 77>> ELSE <<73, 73>>
  IN mark \o ShortBytes(42, node.Order) \o LongBytes(U32(TiffHeaderSize), node.Order)
       \o ShortBytes(n, node.Order)
       \o IFDEntries(node.Fields, 1, TiffHeaderSize + 2 + 12 * n + 4, node.Order)
       \o LongBytes(Zero32, node.Order)
       \o DataArea(node.Fields, 1)

NoTree == [Order |-> "BE", Fields |-> <<>>, err |-> "no tree"]

\* The fields of the n entries at byte offset at of buf; err is set when
\* an entry or its data lies outside buf.
RECURSIVE ParseEntries(_, _, _, _)
ParseEntries(buf, at, n, order) ==
  IF n = 0 THEN [Fields |-> <<>>, err |-> "none"]
  ELSE IF at + 12 > Len(buf) THEN [Fields |-> <<>>, err |-> "tiff: out of bounds"]
  ELSE LET count == GetLong(buf, at + 4, order)
           type == GetShort(buf, at + 2, order)
           size == count[2] * TypeSize(type)
           where == IF size > 4 THEN GetLong(buf, at + 8, order) ELSE U32(at + 8)
       IN IF count[1] # 0 \/ where[1] # 0 \/ where[2] + size > Len(buf)
            THEN [Fields |-> <<>>, err |-> "tiff: out of bounds"]
            ELSE LET rest == ParseEntries(buf, at + 12, n - 1, order) IN
              [Fields |-> << [Tag |-> GetShort(buf, at, order), Type |-> type,
                              Count |-> count[2],
                              Data |-> SubSeq(buf, where[2] + 1, where[2] + size)] >>
                          \o rest.Fields,
               err |-> rest.err]

\* tiff.GetHeader and tiff.GetIFDTree: the directory serialized in buf.
\* GetHeader reports a buffer shorter than the header as not valid, as it
\* does a header with a wrong byte order mark or magic number.
ParseTiff(buf) ==
  IF Len(buf) < TiffHeaderSize THEN [NoTree EXCEPT !.err = "GetMPFTree: Invalid Tiff header"]
  ELSE LET order == IF buf[1] = 77 /\ buf[2] = 77 THEN "BE" ELSE "LE"
           valid == /\ (buf[1] = 77 /\ buf[2] = 77) \/ (buf[1] = 73 /\ buf[2] = 73)
                    /\ GetShort(buf, 2, order) = 42
           ifdpos == GetLong(buf, 4, order)
       IN IF ~valid THEN [NoTree EXCEPT !.err = "GetMPFTree: Invalid Tiff header"]
          ELSE IF ifdpos[1] # 0 \/ ifdpos[2] + 2 > Len(buf)
            THEN [NoTree EXCEPT !.err = "tiff: out of bounds"]
          ELSE LET e == ParseEntries(buf, ifdpos[2] + 2, GetShort(buf, ifdpos[2], order), order)
               IN [Order |-> order, Fields |-> e.Fields, err |-> e.err]

\* fields with field f inserted in tag order
RECURSIVE InsertByTag(_, _)
InsertByTag(fields, f) ==
  IF fields = <<>> THEN <<f>>
  ELSE IF f.Tag < Head(fields).Tag THEN <<f>> \o fields
  ELSE <<Head(fields)>> \o InsertByTag(Tail(fields), f)

RECURSIVE SortByTag(_)
SortByTag(fields) ==
  IF fields = <<>> THEN <<>> ELSE InsertByTag(SortByTag(Tail(fields)), Head(fields))

\* IFDNode.Fix(): the fields are put in tag order, as TIFF requires.
Fix(node) == [node EXCEPT !.Fields = SortByTag(node.Fields)]

(***************************************************************************)
(* Multi-Picture Format                                                    *)
(***************************************************************************)
\* "MPF\000"
MPFHeader == <<77, 80, 70, 0>>
MPFHeaderSize == 4
MPFVersion == 45056
MPFNumberOfImages == 45057
MPFEntry == 45058
APP2 == APP0 + 2

GetMPFHeader(buf) ==
  Len(buf) >= MPFHeaderSize /\ SubSeq(buf, 1, MPFHeaderSize) = MPFHeader

GetMPFTree(buf) == ParseTiff(buf)

\* MakeMPFSegment: a buffer of MPFHeaderSize + tiff.HeaderSize + TreeSize
\* bytes with the MPF header and the serialized tree put into it.
MakeMPFSegment(tree) ==
  LET size == MPFHeaderSize + TiffHeaderSize + TreeSize(tree) IN
  SubSeq(WriteAt(WriteAt(Zeros(size), 0, MPFHeader), MPFHeaderSize, TiffBytes(tree)), 1, size)

\* The last field of the node with the given tag, or the zero Field.
RECURSIVE FieldWithTag(_, _, _)
FieldWithTag(fields, tag, k) ==
  IF k = 0 THEN [Tag |-> 0, Type |-> 0, Count |-> 0, Data |-> <<>>]
  ELSE IF fields[k].Tag = tag THEN fields[k]
  ELSE FieldWithTag(fields, tag, k - 1)

NoIndex == [Offset |-> Zero32, ImageOffsets |-> <<>>, ImageLengths |-> <<>>, err |-> "no index"]

\* mutant: an offset of zero is accepted for every image
RECURSIVE IndexEntriesAnyZero(_, _, _, _, _, _, _)
IndexEntriesAnyZero(entryField, order, offset, count, i, offsets, lengths) ==
  IF ~Lt32(U32(i), count)
    THEN [Offset |-> offset, ImageOffsets |-> offsets, ImageLengths |-> lengths, err |-> "none"]
  ELSE LET rel == FieldLong(entryField, i * 4 + 2, order)
           len == FieldLong(entryField, i * 4 + 1, order)
           abs == IF rel.v # Zero32 THEN Add32(rel.v, offset) ELSE Zero32
       IN IF rel.err # "none" THEN [NoIndex EXCEPT !.err = "panic"]
          ELSE IF rel.v # Zero32 /\ Lt32(abs, offset)
            THEN [NoIndex EXCEPT !.err = "MPF offset overflow"]
          ELSE IF i = 0 /\ abs # Zero32
            THEN [NoIndex EXCEPT !.err = "First image should have an MPF offset of zero"]
          ELSE IF len.err # "none" THEN [NoIndex EXCEPT !.err = "panic"]
          ELSE IndexEntriesAnyZero(entryField, order, offset, count, i + 1,
                                   Append(offsets, abs), Append(lengths, len.v))

\* The entry loop of MPFIndexFromTIFF from entry i on; offsets and lengths
\* hold the entries before i.
RECURSIVE IndexEntries(_, _, _, _, _, _, _)
IndexEntries(entryField, order, offset, count, i, offsets, lengths) ==
  IF ~Lt32(U32(i), count)
    THEN [Offset |-> offset, ImageOffsets |-> offsets, ImageLengths |-> lengths, err |-> "none"]
  ELSE LET rel == FieldLong(entryField, i * 4 + 2, order)
           len == FieldLong(entryField, i * 4 + 1, order)
           abs == IF rel.v # Zero32 THEN Add32(rel.v, offset) ELSE Zero32
       IN IF rel.err # "none" THEN [NoIndex EXCEPT !.err = "panic"]
          ELSE IF rel.v # Zero32 /\ Lt32(abs, offset)
            THEN [NoIndex EXCEPT !.err = "MPF offset overflow"]
          ELSE IF i = 0 /\ abs # Zero32
            THEN [NoIndex EXCEPT !.err = "First image should have an MPF offset of zero"]
          ELSE IF i # 0 /\ abs = Zero32
            THEN [NoIndex EXCEPT !.err = "Only the first image should have an MPF offset of zero"]
          ELSE IF len.err # "none" THEN [NoIndex EXCEPT !.err = "panic"]
          ELSE IndexEntries(entryField, order, offset, count, i + 1,
                            Append(offsets, abs), Append(lengths, len.v))

\* The loop over node.Fields reads f.Long(0, order) of every field with
\* the tag MPFNumberOfImages, in field order: one of them with fewer than
\* 4 bytes of data panics, whether or not it is the last.
CountPanics(node) ==
  \E k \in 1..Len(node.Fields) :
    /\ node.Fields[k].Tag = MPFNumberOfImages
    /\ FieldLong(node.Fields[k], 0, node.Order).err # "none"

\* mutant: an image count of 0 is accepted
MPFIndexFromTIFFNoCountCheck(node, offset) ==
  LET countField == FieldWithTag(node.Fields, MPFNumberOfImages, Len(node.Fields))
      entryField == FieldWithTag(node.Fields, MPFEntry, Len(node.Fields))
      count == IF countField.Tag = MPFNumberOfImages
               THEN FieldLong(countField, 0, node.Order)
               ELSE [v |-> Zero32, err |-> "none"]
  IN IF CountPanics(node) THEN [NoIndex EXCEPT !.err = "panic"]
     ELSE IF Lt32(U32(Len(entryField.Data)), Mul32(16, count.v))
       THEN [NoIndex EXCEPT !.err = "MPF Entry doesn't have 16 bytes for each image"]
     ELSE IndexEntries(entryField, node.Order, offset, count.v, 0, <<>>, <<>>)

\* MPFIndexFromTIFF(node, offset): count and entryField are taken from the
\* last field with the tag.
MPFIndexFromTIFF(node, offset) ==
  LET countField == FieldWithTag(node.Fields, MPFNumberOfImages, Len(node.Fields))
      entryField == FieldWithTag(node.Fields, MPFEntry, Len(node.Fields))
      count == IF countField.Tag = MPFNumberOfImages
               THEN FieldLong(countField, 0, node.Order)
               ELSE [v |-> Zero32, err |-> "none"]
  IN IF CountPanics(node) THEN [NoIndex EXCEPT !.err = "panic"]
     ELSE IF count.v = Zero32 THEN [NoIndex EXCEPT !.err = "MPF image count is 0"]
     ELSE IF Lt32(U32(Len(entryField.Data)), Mul32(16, count.v))
       THEN [NoIndex EXCEPT !.err = "MPF Entry doesn't have 16 bytes for each image"]
     ELSE IndexEntries(entryField, node.Order, offset, count.v, 0, <<>>, <<>>)

\* mutant: the absolute offsets are stored, the base not subtracted
RECURSIVE PutEntriesAbsolute(_, _, _, _)
PutEntriesAbsolute(mpf, f, i, order) ==
  IF i >= Len(mpf.ImageOffsets) THEN [f |-> f, err |-> "none"]
  ELSE LET a == FieldPutLong(f, mpf.ImageOffsets[i + 1], i * 4 + 2, order)
           b == FieldPutLong(a.f, mpf.ImageLengths[i + 1], i * 4 + 1, order)
       IN IF a.err # "none" \/ b.err # "none" THEN [f |-> f, err |-> "panic"]
          ELSE PutEntriesAbsolute(mpf, b.f, i + 1, order)

\* The loop of PutToTiff over the images from i on, for one MPFEntry field.
RECURSIVE PutEntries(_, _, _, _)
PutEntries(mpf, f, i, order) ==
  IF i >= Len(mpf.ImageOffsets) THEN [f |-> f, err |-> "none"]
  ELSE LET offset == IF mpf.ImageOffsets[i + 1] # Zero32
                     THEN Sub32(mpf.ImageOffsets[i + 1], mpf.Offset) ELSE Zero32
           a == FieldPutLong(f, offset, i * 4 + 2, order)
           b == FieldPutLong(a.f, mpf.ImageLengths[i + 1], i * 4 + 1, order)
       IN IF a.err # "none" \/ b.err # "none" THEN [f |-> f, err |-> "panic"]
          ELSE PutEntries(mpf, b.f, i + 1, order)

\* MPFIndex.PutToTiff(node): the node with the offsets and lengths put
\* into every MPFEntry field.
PutToTiff(mpf, node) ==
  LET put == [k \in 1..Len(node.Fields) |->
                IF node.Fields[k].Tag = MPFEntry
                  THEN PutEntries(mpf, node.Fields[k], 0, node.Order)
                  ELSE [f |-> node.Fields[k], err |-> "none"]]
  IN [Order |-> node.Order,
      Fields |-> [k \in 1..Len(node.Fields) |-> put[k].f],
      err |-> IF \E k \in 1..Len(node.Fields) : put[k].err # "none" THEN "panic" ELSE "none"]

\* mutant: every length is taken up to the end position
LengthsToEnd(offsets, end) == [i \in 1..Len(offsets) |-> Sub32(end, offsets[i])]

\* The lengths SetMPFPositions derives from the offsets and the end.
Lengths(offsets, end) ==
  [i \in 1..Len(offsets) |->
     IF i < Len(offsets) THEN Sub32(offsets[i + 1], offsets[i])
     ELSE Sub32(end, offsets[i])]

\* SetMPFPositions(mpfTree, mpfOffset, offsets, end): the modified tree.
\* lengths[count-1] panics when there are no offsets.
SetMPFPositions(mpfTree, mpfOffset, offsets, end) ==
  IF Len(offsets) = 0 THEN [mpfTree EXCEPT !.err = "panic"]
  ELSE PutToTiff([Offset |-> mpfOffset, ImageOffsets |-> offsets,
                  ImageLengths |-> Lengths(offsets, end)], mpfTree)

\* mutant: the segment is written where the writer stands, without the seek
RewriteMPFNoSeek(out, at, mpfTree, mpfWritePos, offsets, end) ==
  LET tree == SetMPFPositions(mpfTree, Add32(mpfWritePos, U32(8)), offsets, end)
      w == WriteData(MakeMPFSegment(tree))
      bytes == WriteMarker(APP2) \o w.bytes
  IN [output |-> WriteAt(out, at, bytes), wpos |-> at + Len(bytes),
      Tree |-> tree, seg |-> MakeMPFSegment(tree),
      err |-> IF tree.err # "none" THEN tree.err ELSE w.err]

\* RewriteMPF(writer, mpfTree, mpfWritePos, offsets, end) with the output
\* out and the writer at position at: the output, the writer's position
\* and the modified tree. A panic in SetMPFPositions leaves the output
\* as it is.
RewriteMPF(out, at, mpfTree, mpfWritePos, offsets, end) ==
  LET tree == SetMPFPositions(mpfTree, Add32(mpfWritePos, U32(8)), offsets, end)
      seg == MakeMPFSegment(tree)
      w == WriteData(seg)
      bytes == WriteMarker(APP2) \o w.bytes
  IN IF tree.err # "none"
       THEN [output |-> out, wpos |-> at, Tree |-> tree, seg |-> <<>>, err |-> tree.err]
       ELSE [output |-> WriteAt(out, Int64(mpfWritePos), bytes),
             wpos |-> Int64(mpfWritePos) + Len(bytes),
             Tree |-> tree, seg |-> seg, err |-> w.err]

\* MPFIndexRewriter.ProcessAPP2(writer, reader, seg) with the reader at
\* position rpos and the writer at position at: the flag, the segment to
\* write, and the Tree, Index and APP2WritePos it records.
IndexRewriter(seg, rpos, at) ==
  IF ~GetMPFHeader(seg)
    THEN [isMPF |-> FALSE, seg |-> seg, Tree |-> NoTree, Index |-> NoIndex,
          APP2WritePos |-> Zero32, err |-> "none"]
  ELSE LET parsed == GetMPFTree(SubSeq(seg, MPFHeaderSize + 1, Len(seg)))
           tree == Fix(parsed)
           offset == Sub32(U32(rpos), U32(Len(seg) - 4))
           index == MPFIndexFromTIFF(tree, offset)
       IN IF parsed.err # "none"
            THEN [isMPF |-> FALSE, seg |-> <<>>, Tree |-> parsed, Index |-> NoIndex,
                  APP2WritePos |-> Zero32, err |-> parsed.err]
          ELSE IF index.err # "none"
            THEN [isMPF |-> FALSE, seg |-> <<>>, Tree |-> tree, Index |-> index,
                  APP2WritePos |-> Zero32, err |-> index.err]
          ELSE [isMPF |-> TRUE, seg |-> MakeMPFSegment(tree), Tree |-> tree,
                Index |-> index, APP2WritePos |-> U32(at), err |-> "none"]

\* MPFGetIndex.ProcessAPP2(_, reader, seg): the flag and the Index.
GetIndex(seg, rpos) ==
  IF ~GetMPFHeader(seg) THEN [isMPF |-> FALSE, Index |-> NoIndex, err |-> "none"]
  ELSE LET tree == GetMPFTree(SubSeq(seg, MPFHeaderSize + 1, Len(seg)))
           index == MPFIndexFromTIFF(tree, Sub32(U32(rpos), U32(Len(seg) - 4)))
       IN IF tree.err # "none" THEN [isMPF |-> FALSE, Index |-> NoIndex, err |-> tree.err]
          ELSE IF index.err # "none" THEN [isMPF |-> FALSE, Index |-> index, err |-> index.err]
          ELSE [isMPF |-> TRUE, Index |-> index, err |-> "none"]

\* MPFAttributeData.ProcessAPP2 of jpegsegscopy: the segment decoded and
\* encoded again.
AttributeData(seg) ==
  IF ~GetMPFHeader(seg) THEN [seg |-> seg, err |-> "none"]
  ELSE LET tree == GetMPFTree(SubSeq(seg, MPFHeaderSize + 1, Len(seg))) IN
       IF tree.err # "none" THEN [seg |-> <<>>, err |-> tree.err]
       ELSE [seg |-> MakeMPFSegment(Fix(tree)), err |-> "none"]

(***************************************************************************)
(* State                                                                   *)
(***************************************************************************)
VARIABLES
  input,    \* the bytes of the input file
  output,   \* the bytes of the output file
  wpos,     \* position of the writer in the output file
  scanner,  \* Scanner "in" reads input, Scanner "out" reads output
  res,      \* per Scanner, the (marker, data, error) triples Scan returned
  dst,      \* Dumper: "none" (not created), "open", "closed" (EOI dumped), "failed"
  dumped,   \* number of triples of Scanner "in" handed to Dump
  stuff,    \* SpecStuff: the byte sequence under the byte-stuffing transform
  copy,     \* SpecMPF: the state of jpegsegscopy's main
  pos,      \* SpecPos: an MPF tree and the positions put into it
  call      \* SpecCodec, SpecIndex: one call of a function, its arguments and result

vars == <<input, output, wpos, scanner, res, dst, dumped, stuff, copy, pos, call>>

\* the variables of the Scanner/Dumper specification, at rest elsewhere
scanVars == <<input, output, wpos, scanner, res, dst, dumped>>

Ids == {"in", "out"}
Stream(id) == IF id = "in" THEN input ELSE output

NoScanner == [pos |-> 0, imageData |-> FALSE, cap |-> 0, array |-> <<>>, st |-> "none"]

(***************************************************************************)
(* Input streams: the header followed by up to MaxTok tokens, and a few    *)
(* streams without a header.                                               *)
(***************************************************************************)
Header == <<FF, SOI>>

Tokens ==
  { <<FF, EOI>>, <<FF, SOS, 0, 2>>, <<FF, RST0>>, <<FF, RST0, 1>>, <<FF, COM>>,
    <<FF>>, <<0>>, <<1>>, <<2>> }

RECURSIVE Bodies(_)
Bodies(n) ==
  IF n = 0 THEN {<<>>}
  ELSE LET shorter == Bodies(n - 1) IN
       shorter \cup {b \o t : b \in shorter, t \in Tokens}

\* header, zero-length COM segment, SOS marker, scan byte 0x01, EOI
MinimalFile == <<FF, SOI, FF, COM, 0, 2, FF, SOS, 1, FF, EOI>>
\* the same with a zero-length SOS segment after the SOS marker
MinimalFileSOSSegment == <<FF, SOI, FF, COM, 0, 2, FF, SOS, 0, 2, 1, FF, EOI>>

\* fill bytes before the COM and EOI markers, 0xFF 0xFF as the payload of
\* the COM segment, an escaped 0xFF in the scan data
FillFile ==
  <<FF, SOI, FF, FF, COM, 0, 4, FF, FF, FF, SOS, 0, 2, 1, FF, 0, FF, FF, FF, EOI>>

Inputs ==
  {Header \o b : b \in Bodies(MaxTok)}
    \cup {MinimalFile, MinimalFileSOSSegment, FillFile}
    \cup {<<>>, <<FF>>, <<FF, EOI>>, <<SOI, FF>>}

(***************************************************************************)
(* Specification Spec: a caller scans the input, dumps every returned pair *)
(* up to EOI to the output (the loop of copyImage), may go on calling Scan *)
(* after EOI, and scans the output with a second Scanner.                  *)
(***************************************************************************)
Init ==
  /\ input \in Inputs
  /\ output = <<>>
  /\ wpos = 0
  /\ scanner = [id \in Ids |-> NoScanner]
  /\ res = [id \in Ids |-> <<>>]
  /\ dst = "none"
  /\ dumped = 0
  /\ stuff = [phase |-> "idle"]
  /\ copy = [pc |-> "idle"]
  /\ pos = [phase |-> "idle"]
  /\ call = [op |-> "idle"]

\* NewScanner(reader): on the input at once, on the output once the
\* Dumper has written EOI.
NewScanner(id) ==
  /\ scanner[id].st = "none"
  /\ id = "out" => dst = "closed"
  /\ LET n == NewScannerAt(Stream(id), 0) IN
     scanner' = [scanner EXCEPT ![id] =
                   [pos |-> n.pos, imageData |-> n.imageData, cap |-> n.cap,
                    array |-> n.array, st |-> n.st]]
  /\ UNCHANGED <<input, output, wpos, res, dst, dumped, stuff, copy, pos, call>>

\* NewDumper(writer): writes the header.
NewDumper ==
  /\ dst = "none"
  /\ scanner["in"].st = "ready"
  /\ output' = WriteAt(output, wpos, WriteMarker(SOI))
  /\ wpos' = wpos + 2
  /\ dst' = "open"
  /\ UNCHANGED <<input, scanner, res, dumped, stuff, copy, pos, call>>

\* scanner.Scan(): the result is recorded in res. A caller stops at the
\* first error. The input is scanned in step with the Dumper until EOI has
\* been dumped, and freely after that.
Scan(id) ==
  /\ scanner[id].st = "ready"
  /\ id = "in" => (dst = "open" /\ dumped = Len(res["in"])) \/ dst = "closed"
  /\ LET c == ScanCall(Stream(id), scanner[id]) IN
     /\ scanner' = [scanner EXCEPT ![id] =
          [pos |-> c.pos, imageData |-> c.imageData, cap |-> c.cap, array |-> c.array,
           st |-> IF c.err = "none" THEN "ready"
                  ELSE IF c.err = "hang" THEN "hung" ELSE "failed"]]
     /\ res' = [res EXCEPT ![id] = Append(@, Returned(c))]
  /\ UNCHANGED <<input, output, wpos, dst, dumped, stuff, copy, pos, call>>

\* dumper.Dump(marker, buf) of the pair Scan returned last; the caller
\* breaks out of its loop after EOI.
Dump ==
  /\ dst = "open"
  /\ dumped < Len(res["in"])
  /\ LET r == res["in"][dumped + 1]
         d == DumpCall(r.marker, r.data, r.present)
     IN
     /\ r.err = "none"
     /\ output' = WriteAt(output, wpos, d.bytes)
     /\ wpos' = wpos + Len(d.bytes)
     /\ dst' = IF d.err # "none" THEN "failed"
               ELSE IF r.marker = EOI THEN "closed" ELSE "open"
  /\ dumped' = dumped + 1
  /\ UNCHANGED <<input, scanner, res, stuff, copy, pos, call>>

Next ==
  \/ \E id \in Ids : NewScanner(id)
  \/ NewDumper
  \/ \E id \in Ids : Scan(id)
  \/ Dump

Spec == Init /\ [][Next]_vars

(***************************************************************************)
(* Properties of Spec                                                      *)
(***************************************************************************)
Last(q) == q[Len(q)]

\* Scanner id has made a Scan call in this step.
Scanned(id) == Len(res'[id]) = Len(res[id]) + 1

\* The pairs the first Scanner returned up to and including EOI, all of
\* which have been dumped once the Dumper is closed.
DumpedPairs == SubSeq(res["in"], 1, dumped)

\* C1: when the scan of the input has succeeded through EOI and every
\* returned pair has been written with Dump, scanning the output returns
\* the same pairs in the same order, nil data where the input gave nil and
\* present data where it gave data, and fails nowhere before its EOI.
C1_ScanDumpScanRoundTrip ==
  dst = "closed" =>
    /\ \A k \in 1..Min(Len(res["out"]), dumped) : res["out"][k] = DumpedPairs[k]
    /\ scanner["out"].st \in {"failed", "hung"} => Len(res["out"]) > dumped

\* a round trip completed over a stream with a payload, a nil payload and
\* scan data that holds an escaped 0xFF
C1_Witness ==
  /\ dst = "closed"
  /\ Len(res["out"]) = dumped
  /\ res["out"] = DumpedPairs
  /\ \E k \in 1..dumped : DumpedPairs[k].marker = 0 /\ IndexByte(DumpedPairs[k].data, 0, FF) # -1
  /\ \E k \in 1..dumped : DumpedPairs[k].marker = SOS /\ DumpedPairs[k].present
  /\ ~DumpedPairs[dumped].present

\* The scan of the input has come to its end: an error, or four results.
ScanOver == scanner["in"].st \in {"failed", "hung"} \/ Len(res["in"]) >= 4

FirstFour == SubSeq(res["in"], 1, Min(4, Len(res["in"])))

\* C4 as stated: the file header, COM(0x0002), SOS marker, 0x01, EOI scans
\* as (COM, empty), (SOS, nil), (raw data, [0x01]), (EOI, nil).
C4_MinimalFileAsStated ==
  (input = MinimalFile /\ ScanOver) =>
    FirstFour = << [marker |-> COM, data |-> <<>>, present |-> TRUE, err |-> "none"],
                   [marker |-> SOS, data |-> <<>>, present |-> FALSE, err |-> "none"],
                   [marker |-> 0, data |-> <<1>>, present |-> TRUE, err |-> "none"],
                   [marker |-> EOI, data |-> <<>>, present |-> FALSE, err |-> "none"] >>

\* C4 amended: with a zero-length segment (length field 0x0002) after the
\* SOS marker, the file scans as (COM, empty), (SOS, empty), (raw data,
\* [0x01]), (EOI, nil), in that order.
C4_MinimalFileWithSOSSegment ==
  (input = MinimalFileSOSSegment /\ ScanOver) =>
    FirstFour = << [marker |-> COM, data |-> <<>>, present |-> TRUE, err |-> "none"],
                   [marker |-> SOS, data |-> <<>>, present |-> TRUE, err |-> "none"],
                   [marker |-> 0, data |-> <<1>>, present |-> TRUE, err |-> "none"],
                   [marker |-> EOI, data |-> <<>>, present |-> FALSE, err |-> "none"] >>

C4_Witness ==
  /\ input = MinimalFileSOSSegment
  /\ Len(res["in"]) = 4
  /\ res["in"][4].marker = EOI
  /\ scanner["in"].pos = Len(input)

\* Scan has returned EOI as result k of Scanner id.
ReturnedEOI(id, k) == res[id][k].marker = EOI /\ res[id][k].err = "none"

\* C9 as stated: once Scan has returned EOI, every further call fails.
C9_FailsAfterEOI ==
  \A id \in Ids : \A k \in 1..Len(res[id]) :
    ReturnedEOI(id, k) => \A j \in (k + 1)..Len(res[id]) : res[id][j].err # "none"

\* C9 amended: after returning EOI the Scanner is in marker mode and a
\* further Scan call reads the bytes after EOI as a marker: it fails with
\* EOF when the stream ends there and with the 0xFF-expected error when
\* two bytes follow of which the first is not 0xFF, and it returns a
\* payload-free marker (TEM, RSTn, EOI) that follows, with no error.
C9_ReadsOnAfterEOI ==
  [][\A id \in Ids :
       (Len(res[id]) > 0 /\ ReturnedEOI(id, Len(res[id])) /\ Scanned(id)) =>
         LET s == Stream(id)
             p == scanner[id].pos
             r == Last(res'[id])
         IN
         /\ ~scanner[id].imageData
         /\ p = Len(s) => r.err = "EOF"
         /\ (p + 2 <= Len(s) /\ s[p + 1] # FF) => r.err = "0xFF expected in marker"
         /\ (p + 2 <= Len(s) /\ s[p + 1] = FF /\ NoPayload(s[p + 2])) =>
              /\ r = [marker |-> s[p + 2], data |-> <<>>, present |-> FALSE, err |-> "none"]
              /\ scanner'[id].pos = p + 2
    ]_vars

\* a Scan call after EOI that succeeded
C9_Witness ==
  \E id \in Ids : \E k \in 1..Len(res[id]) :
    ReturnedEOI(id, k) /\ k < Len(res[id]) /\ res[id][k + 1].err = "none"

\* A marker (0xFF and a byte other than 0x00) stands at position p of s.
MarkerAt(s, p) == p + 2 <= Len(s) /\ s[p + 1] = FF /\ s[p + 2] # 0

\* C10 as stated: with a marker right after an SOS segment or a restart
\* marker, Scan returns the raw-data pseudo-marker with a zero-length chunk
\* and no error.
C10_EmptyScanDataReturned ==
  [][\A id \in Ids :
       (scanner[id].imageData /\ MarkerAt(Stream(id), scanner[id].pos) /\ Scanned(id)) =>
         LET r == Last(res'[id]) IN
         r.err = "none" /\ r.marker = 0 /\ r.data = <<>>
    ]_vars

\* C10 amended: with a marker right after an SOS segment or a restart
\* marker, ReadImageData returns a zero-length chunk with no error and
\* leaves the reader at that marker, and Scan turns this into the error
\* "Expecting image data": it returns no chunk and stays in image-data mode.
C10_EmptyScanDataIsAnError ==
  [][\A id \in Ids :
       (scanner[id].imageData /\ MarkerAt(Stream(id), scanner[id].pos) /\ Scanned(id)) =>
         LET r == Last(res'[id])
             d == ReadImageData(Stream(id), scanner[id].pos, scanner[id].cap,
                                scanner[id].array)
         IN
         /\ d.err = "none" /\ d.data = <<>> /\ d.pos = scanner[id].pos
         /\ r = [marker |-> 0, data |-> <<>>, present |-> FALSE, err |-> "Expecting image data"]
         /\ scanner'[id].imageData
         /\ scanner'[id].pos = scanner[id].pos
         /\ scanner'[id].st = "failed"
    ]_vars

\* Scan has failed on an empty scan-data region between two restart markers
C10_Witness ==
  /\ scanner["in"].st = "failed"
  /\ Len(res["in"]) >= 2
  /\ Last(res["in"]).err = "Expecting image data"
  /\ IsRST(res["in"][Len(res["in"]) - 1].marker)
  /\ MarkerAt(input, scanner["in"].pos)
  /\ IsRST(input[scanner["in"].pos + 2])

(***************************************************************************)
(* Specification SpecStuff: the byte-stuffing transform as a pair of pure  *)
(* functions. A byte sequence S is written with WriteImageData after some  *)
(* earlier bytes of the stream, something follows it, and ReadImageData is *)
(* started at the first byte WriteImageData wrote.                         *)
(***************************************************************************)
DataBytes == {0, 1, EOI, FF}

RECURSIVE DataSeqs(_)
DataSeqs(n) ==
  IF n = 0 THEN {<<>>}
  ELSE LET shorter == DataSeqs(n - 1) IN
       shorter \cup {d \o <<b>> : d \in shorter, b \in DataBytes}

\* what precedes the scan data in the stream
Preludes == {<<>>, <<FF, SOS, 0, 2>>}
\* what follows it: a marker, a marker after a fill byte, 0xFF 0xFF,
\* nothing at all, a lone 0xFF
Followers == {<<FF, EOI>>, <<FF, RST0>>, <<FF, FF, EOI>>, <<FF, FF>>, <<>>, <<FF>>}
\* The block size of ReadImageData, and small block sizes that put block
\* boundaries inside the short streams of the model.
BlockSizes == {2, 3, blocksize}
\* capacity of the buffer handed to ReadImageData (0: nil)
Capacities == {0, ScannerBufSize}

InitStuff ==
  /\ stuff \in [phase : {"start"}, S : DataSeqs(MaxData), prelude : Preludes,
                follower : Followers, bs : BlockSizes, cap : Capacities,
                written : {<<>>}, read : {[err |-> "not read"]},
                next : {[err |-> "not scanned"]}]
  /\ input = <<>>
  /\ output = <<>>
  /\ wpos = 0
  /\ scanner = [id \in Ids |-> NoScanner]
  /\ res = [id \in Ids |-> <<>>]
  /\ dst = "none"
  /\ dumped = 0
  /\ copy = [pc |-> "idle"]
  /\ pos = [phase |-> "idle"]
  /\ call = [op |-> "idle"]

\* WriteImageData(writer, S)
StuffWrite ==
  /\ stuff.phase = "start"
  /\ stuff' = [stuff EXCEPT !.phase = "written", !.written = WriteImageData(stuff.S)]
  /\ UNCHANGED <<scanVars, copy, pos, call>>

\* the stream ReadImageData reads
StuffStream == stuff.prelude \o stuff.written \o stuff.follower

\* ReadImageData(reader, buf) with the reader at the first byte written
StuffRead ==
  /\ stuff.phase = "written"
  /\ stuff' = [stuff EXCEPT !.phase = "read",
                 !.read = ReadImageDataBS(StuffStream, Len(stuff.prelude), stuff.cap, stuff.bs, <<>>)]
  /\ UNCHANGED <<scanVars, copy, pos, call>>

\* Scan has returned the data ReadImageData read (it was not empty) and
\* is called again: the Scanner reads a marker where the reader stands.
StuffScan ==
  /\ stuff.phase = "read"
  /\ stuff.read.err = "none"
  /\ Len(stuff.read.data) > 0
  /\ stuff.next.err = "not scanned"
  /\ LET c == ScanCall(StuffStream, [pos |-> stuff.read.pos, imageData |-> FALSE,
                                     cap |-> stuff.read.cap, array |-> stuff.read.array])
     IN stuff' = [stuff EXCEPT !.next = [marker |-> c.marker, pos |-> c.pos, err |-> c.err]]
  /\ UNCHANGED <<scanVars, copy, pos, call>>

NextStuff == StuffWrite \/ StuffRead \/ StuffScan

SpecStuff == InitStuff /\ [][NextStuff]_vars

\* 0xFF and then a non-zero byte
RealMarker(f) == Len(f) >= 2 /\ f[1] = FF /\ f[2] # 0

\* C2: when a real marker follows the bytes WriteImageData wrote for S,
\* ReadImageData started at the first of those bytes returns exactly S and
\* no error.
C2_StuffRoundTrip ==
  (stuff.phase = "read" /\ RealMarker(stuff.follower)) =>
    stuff.read.err = "none" /\ stuff.read.data = stuff.S

\* S holds two 0xFF bytes, one of them last, and was read back over a block
\* boundary
C2_Witness ==
  /\ stuff.phase = "read"
  /\ RealMarker(stuff.follower)
  /\ Len(stuff.S) >= 3
  /\ stuff.S[Len(stuff.S)] = FF
  /\ IndexByte(stuff.S, 0, FF) < Len(stuff.S) - 1
  /\ stuff.bs = 2
  /\ stuff.read.data = stuff.S

\* S with one 0x00 inserted after every 0xFF byte.
RECURSIVE Stuffed(_)
Stuffed(S) ==
  IF S = <<>> THEN <<>>
  ELSE (IF Head(S) = FF THEN <<FF, 0>> ELSE <<Head(S)>>) \o Stuffed(Tail(S))

\* C3: the bytes WriteImageData writes are S with one 0x00 inserted after
\* every 0xFF and nothing else changed: every 0xFF written is followed by
\* 0x00, and S without 0xFF is written as it is.
C3_WriteImageDataStuffs ==
  stuff.phase \in {"written", "read"} =>
    LET w == stuff.written IN
    /\ w = Stuffed(stuff.S)
    /\ \A k \in 1..Len(w) : w[k] = FF => (k < Len(w) /\ w[k + 1] = 0)
    /\ IndexByte(stuff.S, 0, FF) = -1 => w = stuff.S

\* S ends with 0xFF and holds another one
C3_Witness ==
  /\ stuff.phase = "written"
  /\ Len(stuff.S) >= 3
  /\ stuff.S[Len(stuff.S)] = FF
  /\ IndexByte(stuff.S, 0, FF) < Len(stuff.S) - 1
  /\ Len(stuff.written) = Len(stuff.S) + 2

(***************************************************************************)
(* MPF index directories for the input files of SpecPos and SpecMPF        *)
(***************************************************************************)
\* One 16-byte entry: attribute, length, relative offset, dependent images.
EntryBytes(len, rel, order) ==
  <<1, 2, 3, 4>> \o LongBytes(len, order) \o LongBytes(rel, order) \o <<5, 6, 7, 8>>

RECURSIVE EntryTable(_, _, _, _)
EntryTable(rels, lens, k, order) ==
  IF k > Len(rels) THEN <<>>
  ELSE EntryBytes(lens[k], rels[k], order) \o EntryTable(rels, lens, k + 1, order)

\* The index directory of a file whose images have the given relative
\* offsets and lengths; sorted = FALSE puts the fields out of tag order.
IndexTree(order, rels, lens, sorted) ==
  LET version == [Tag |-> MPFVersion, Type |-> TypeUNDEFINED, Count |-> 4,
                  Data |-> <<48, 49, 48, 48>>]
      count == [Tag |-> MPFNumberOfImages, Type |-> TypeLONG, Count |-> 1,
                Data |-> LongBytes(U32(Len(rels)), order)]
      entry == [Tag |-> MPFEntry, Type |-> TypeUNDEFINED, Count |-> 16 * Len(rels),
                Data |-> EntryTable(rels, lens, 1, order)]
  IN [Order |-> order,
      Fields |-> IF sorted THEN <<version, count, entry>> ELSE <<entry, version, count>>,
      err |-> "none"]

\* The index segment as it stands in a file: the MPF header and the
\* serialized directory.
IndexSegment(order, rels, lens, sorted) ==
  MPFHeader \o TiffBytes(IndexTree(order, rels, lens, sorted))

(***************************************************************************)
(* Specification SpecPos: SetMPFPositions and RewriteMPF as functions of   *)
(* the new offsets and the end position. The first pass has written the    *)
(* header, the APP2 segment ProcessAPP2 returned and the rest of an image;  *)
(* then the positions are set in the tree and the segment is rewritten.    *)
(***************************************************************************)
OffsetValues == {0, 1000, 2500, 66000}
EndValues == {900, 3200, 70000}

RECURSIVE OffsetLists(_)
OffsetLists(n) ==
  IF n = 0 THEN {<<>>}
  ELSE LET shorter == OffsetLists(n - 1) IN
       shorter \cup {l \o <<v>> : l \in shorter, v \in OffsetValues}

\* the offsets and lengths the index holds before the rewrite
OldRels(n) == [k \in 1..n |-> IF k = 1 THEN Zero32 ELSE U32(300 * k)]
OldLens(n) == [k \in 1..n |-> U32(300)]

\* what the first pass wrote after the APP2 segment
RestOfImage == <<FF, SOS, 0, 2, 1, FF, EOI>>

InitPos ==
  /\ pos \in [phase : {"start"}, order : Orders, n : {1, MaxImages}, sorted : BOOLEAN,
              offsets : OffsetLists(MaxImages) \ {<<>>}, end : EndValues]
  /\ input = <<>>
  /\ output = <<>>
  /\ wpos = 0
  /\ scanner = [id \in Ids |-> NoScanner]
  /\ res = [id \in Ids |-> <<>>]
  /\ dst = "none"
  /\ dumped = 0
  /\ stuff = [phase |-> "idle"]
  /\ copy = [pc |-> "idle"]
  /\ call = [op |-> "idle"]

U32List(l) == [k \in 1..Len(l) |-> U32(l[k])]

\* First pass: the header is written, MPFIndexRewriter.ProcessAPP2 is
\* given the index segment of the input, and the segment it returns is
\* dumped, followed by the rest of the image.
PosReserve ==
  /\ pos.phase = "start"
  /\ LET seg == IndexSegment(pos.order, OldRels(pos.n), OldLens(pos.n), pos.sorted)
         r == IndexRewriter(seg, HeaderSize + 4 + Len(seg), HeaderSize)
         out == Header \o DumpCall(APP2, r.seg, TRUE).bytes \o RestOfImage
     IN /\ output' = out
        /\ wpos' = Len(out)
        /\ pos' = [phase |-> IF r.err = "none" THEN "reserved" ELSE "failed",
                   order |-> pos.order, n |-> pos.n, sorted |-> pos.sorted,
                   offsets |-> pos.offsets, end |-> pos.end,
                   Tree |-> r.Tree, APP2WritePos |-> r.APP2WritePos,
                   placeholder |-> r.seg, before |-> out, seg |-> <<>>]
  /\ UNCHANGED <<input, scanner, res, dst, dumped, stuff, copy, call>>

\* SetMPFPositions(tree, APP2WritePos + 8, offsets, end); the tree is
\* modified in place.
PosSet ==
  /\ pos.phase = "reserved"
  /\ LET tree == SetMPFPositions(pos.Tree, Add32(pos.APP2WritePos, U32(8)),
                                 U32List(pos.offsets), U32(pos.end))
     IN pos' = [pos EXCEPT !.phase = IF tree.err = "none" THEN "set" ELSE "panic",
                           !.Tree = IF tree.err = "none" THEN tree ELSE @]
  /\ UNCHANGED <<scanVars, stuff, copy, call>>

\* RewriteMPF(writer, tree, APP2WritePos, offsets, end)
PosRewrite ==
  /\ pos.phase = "set"
  /\ LET r == RewriteMPF(output, wpos, pos.Tree, pos.APP2WritePos,
                         U32List(pos.offsets), U32(pos.end))
     IN /\ output' = r.output
        /\ wpos' = r.wpos
        /\ pos' = [pos EXCEPT !.phase = IF r.err = "none" THEN "rewritten" ELSE "failed",
                              !.Tree = r.Tree, !.seg = r.seg]
  /\ UNCHANGED <<input, scanner, res, dst, dumped, stuff, copy, call>>

NextPos == PosReserve \/ PosSet \/ PosRewrite

SpecPos == InitPos /\ [][NextPos]_vars

\* The byte range of the output that the placeholder APP2 segment takes:
\* marker, length field and data.
InPlaceholder(k) ==
  /\ k > Int64(pos.APP2WritePos)
  /\ k <= Int64(pos.APP2WritePos) + 4 + Len(pos.placeholder)

\* C7: whatever the new offsets and the end position, the segment
\* RewriteMPF writes is as long as the placeholder ProcessAPP2 returned, and
\* the overwrite at APP2WritePos covers exactly the placeholder: the output
\* keeps its length and every byte outside the placeholder, and holds the
\* new segment in its place.
C7_RewriteKeepsSegmentLength ==
  pos.phase = "rewritten" =>
    /\ Len(pos.seg) = Len(pos.placeholder)
    /\ Len(output) = Len(pos.before)
    /\ \A k \in 1..Len(output) : ~InPlaceholder(k) => output[k] = pos.before[k]
    /\ SubSeq(output, Int64(pos.APP2WritePos) + 5,
              Int64(pos.APP2WritePos) + 4 + Len(pos.placeholder)) = pos.seg

\* a rewrite that changed the segment, with an offset above 2^16
C7_Witness ==
  /\ pos.phase = "rewritten"
  /\ pos.seg # pos.placeholder
  /\ output # pos.before
  /\ pos.n = 3
  /\ Len(pos.offsets) = 3
  /\ pos.offsets[3] = 66000

\* The offsets do not decrease and the end is not below the last of them.
Ordered(offsets, end) ==
  /\ \A i \in 1..(Len(offsets) - 1) : offsets[i] <= offsets[i + 1]
  /\ offsets[Len(offsets)] <= end

\* The length word of entry i (from 1) of the tree's entry table.
StoredLength(tree, i) ==
  FieldLong(FieldWithTag(tree.Fields, MPFEntry, Len(tree.Fields)), (i - 1) * 4 + 1, tree.Order).v

\* C8: for offsets in non-decreasing order and an end not below the last
\* one, put into a tree that has an entry for each of them, SetMPFPositions
\* stores length[i] = offsets[i+1] - offsets[i] for every entry but the
\* last and end - offsets[n-1] for the last; offsets [0, 1000, 2500] with
\* end 3200 give [1000, 1500, 700].
C8_LengthsFromOffsets ==
  (pos.phase = "set" /\ Ordered(pos.offsets, pos.end)) =>
    LET n == Len(pos.offsets) IN
    /\ \A i \in 1..(n - 1) :
         StoredLength(pos.Tree, i) = U32(pos.offsets[i + 1] - pos.offsets[i])
    /\ StoredLength(pos.Tree, n) = U32(pos.end - pos.offsets[n])
    /\ (pos.offsets = <<0, 1000, 2500>> /\ pos.end = 3200) =>
         /\ StoredLength(pos.Tree, 1) = U32(1000)
         /\ StoredLength(pos.Tree, 2) = U32(1500)
         /\ StoredLength(pos.Tree, 3) = U32(700)

\* offsets [0, 1000, 2500] and end 3200 have been put into a tree
C8_Witness ==
  /\ pos.phase = "set"
  /\ pos.offsets = <<0, 1000, 2500>>
  /\ pos.end = 3200
  /\ StoredLength(pos.Tree, 3) = U32(700)

(***************************************************************************)
(* MPF input files. The first image holds the index segment; every later   *)
(* image follows it in the file, after a gap of junk bytes if there is one. *)
(***************************************************************************)
MPIndividualNum == 45313

\* The attribute directory of a later image, its fields out of tag order.
AttrTree(order, k) ==
  [Order |-> order,
   Fields |-> << [Tag |-> MPIndividualNum, Type |-> TypeLONG, Count |-> 1,
                  Data |-> LongBytes(U32(k), order)],
                 [Tag |-> MPFVersion, Type |-> TypeUNDEFINED, Count |-> 4,
                  Data |-> <<48, 49, 48, 48>>] >>,
   err |-> "none"]

FillByte(fill) == IF fill THEN <<FF>> ELSE <<>>

\* The first image: header, index segment (after a fill byte if fill),
\* SOS segment, one byte of image data, EOI.
FirstImage(order, rels, lens, sorted, fill) ==
  Header \o FillByte(fill) \o <<FF, APP2>>
    \o WriteData(IndexSegment(order, rels, lens, sorted)).bytes
    \o <<FF, SOS, 0, 2, 1, FF, EOI>>

\* Image k > 0: header, attribute segment if attr, COM segment (after a
\* fill byte if fill), SOS segment, image data with a stuffed 0xFF, EOI.
LaterImage(k, order, attr, fill) ==
  Header
    \o (IF attr THEN <<FF, APP2>> \o WriteData(MPFHeader \o TiffBytes(AttrTree(order, k))).bytes
        ELSE <<>>)
    \o FillByte(fill) \o <<FF, COM, 0, 3, k>>
    \o <<FF, SOS, 0, 2, k, FF, 0, FF, EOI>>

GapBytes(gap) == [j \in 1..gap |-> 7]

\* The image (numbered from 0 in file order) that entry p (from 1) of the
\* index stands for: in file order, or with the last two exchanged.
ImageAt(p, n, swap) ==
  IF swap /\ n >= 3 /\ p = n THEN n - 2
  ELSE IF swap /\ n >= 3 /\ p = n - 1 THEN n - 1
  ELSE p - 1

RECURSIVE LaterImages(_, _, _)
LaterImages(sh, k, n) ==
  IF k >= n THEN <<>>
  ELSE GapBytes(sh.gap) \o LaterImage(k, sh.order, sh.attr, sh.fill) \o LaterImages(sh, k + 1, n)

\* The file of shape sh. The offsets in its index are relative to the
\* byte after the MPF header; entry sh.stale, if there is one, is off by one.
MPFFile(sh) ==
  LET n == sh.n
      size0 == Len(FirstImage(sh.order, OldRels(n), OldLens(n), sh.sorted, sh.fill))
      sizeL == Len(LaterImage(1, sh.order, sh.attr, sh.fill))
      base == HeaderSize + Len(FillByte(sh.fill)) + 8
      start(k) == IF k = 0 THEN 0 ELSE size0 + sh.gap + (k - 1) * (sizeL + sh.gap)
      rels == [p \in 1..n |->
                 IF p = 1 THEN Zero32
                 ELSE U32(start(ImageAt(p, n, sh.swap)) - base
                            + (IF sh.stale = p - 1 THEN 1 ELSE 0))]
      lens == [p \in 1..n |-> U32(IF p = 1 THEN size0 ELSE sizeL)]
  IN FirstImage(sh.order, rels, lens, sh.sorted, sh.fill) \o LaterImages(sh, 1, n)

Shapes ==
  [order : Orders, n : 1..MaxImages, sorted : BOOLEAN, fill : BOOLEAN, gap : 0..1,
   swap : BOOLEAN, stale : 0..(MaxImages - 1), attr : BOOLEAN]

MPFFiles == {MPFFile(sh) : sh \in Shapes}

\* Files without an index, files whose APP2 segment has the MPF header
\* but no valid directory or an image count of 0, a file that ends in a
\* lone 0xFF of image data, and the empty file.
PlainFiles ==
  { MinimalFileSOSSegment,
    Header \o <<FF, SOS, 0, 2, 1, FF>>,
    Header \o <<FF, APP2, 0, 4, 1, 2, FF, EOI>>,
    Header \o <<FF, APP2, 0, 6>> \o MPFHeader \o <<FF, EOI>>,
    Header \o <<FF, APP2>>
      \o WriteData(MPFHeader \o TiffBytes([Order |-> "BE", Fields |-> <<>>, err |-> "none"])).bytes
      \o <<FF, EOI>>,
    <<>> }

(***************************************************************************)
(* Specification SpecMPF: main of jpegsegscopy. The first image is copied  *)
(* with an MPFIndexRewriter; if it recorded a Tree, the images of the      *)
(* index are copied in index order and the index segment is rewritten.     *)
(* Then the index is read back from the output.                            *)
(***************************************************************************)
InitMPF ==
  /\ input \in MPFFiles \cup PlainFiles
  /\ output = <<>>
  /\ wpos = 0
  /\ scanner = [id \in Ids |-> NoScanner]
  /\ res = [id \in Ids |-> <<>>]
  /\ dst = "none"
  /\ dumped = 0
  /\ stuff = [phase |-> "idle"]
  /\ pos = [phase |-> "idle"]
  /\ call = [op |-> "idle"]
  /\ copy = [pc |-> "open", img |-> 0, i |-> 0, Tree |-> NoTree, Index |-> NoIndex,
             APP2WritePos |-> Zero32, newOffsets |-> <<>>, soiPos |-> <<>>,
             iterErr |-> "none", readIndex |-> NoIndex, applied |-> <<>>,
             readAt |-> <<>>]

\* copyImage has ended with err. A panic is not an error value: nothing
\* recovers it and the process ends where it stands, for any image.
\* copyImage has returned err: main ends for the first image (log.Fatal);
\* for a later image ImageIterate returns the error, which copyMPFImages
\* drops, and main goes on to rewriteMPF.
CopyFailed(c, err) ==
  IF err = "hang" THEN [c EXCEPT !.pc = "hung"]
  ELSE IF err = "panic" THEN [c EXCEPT !.pc = "crashed"]
  ELSE IF c.img = 0 THEN [c EXCEPT !.pc = "fatal"]
  ELSE [c EXCEPT !.pc = "rewrite", !.iterErr = err]

\* copyImage has returned nil for image c.img.
CopyDone(c) ==
  IF c.img > 0 THEN [c EXCEPT !.pc = "iterate", !.i = c.img + 1]
  ELSE IF c.Tree.err # "none" THEN [c EXCEPT !.pc = "done"]
  ELSE [c EXCEPT !.pc = "iterate", !.i = 0,
                 !.newOffsets = [k \in 1..Len(c.Index.ImageOffsets) |-> Zero32]]

\* copyImage up to its loop: NewScanner on the reader where it stands,
\* NewDumper on the writer. soiPos records where the header was written,
\* readAt where copyImage found the reader.
CopyOpen ==
  /\ copy.pc = "open"
  /\ LET n == NewScannerAt(input, scanner["in"].pos) IN
     IF n.err # "none"
       THEN /\ scanner' = [scanner EXCEPT !["in"] =
                 [pos |-> n.pos, imageData |-> FALSE, cap |-> n.cap, array |-> n.array,
                  st |-> "failed"]]
            /\ copy' = [CopyFailed(copy, n.err) EXCEPT
                          !.readAt = Append(@, scanner["in"].pos)]
            /\ UNCHANGED <<output, wpos>>
       ELSE /\ scanner' = [scanner EXCEPT !["in"] =
                 [pos |-> n.pos, imageData |-> FALSE, cap |-> n.cap, array |-> n.array,
                  st |-> "ready"]]
            /\ output' = WriteAt(output, wpos, WriteMarker(SOI))
            /\ wpos' = wpos + HeaderSize
            /\ copy' = [copy EXCEPT !.pc = "copying", !.soiPos = Append(@, wpos),
                                    !.readAt = Append(@, scanner["in"].pos)]
  /\ UNCHANGED <<input, res, dst, dumped, stuff, pos, call>>

\* The mpfProcessor of the image being copied, applied to an APP2 segment.
ProcessAPP2(c, seg, rpos, at) ==
  IF c.img = 0
    THEN LET r == IndexRewriter(seg, rpos, at) IN
         [seg |-> r.seg, err |-> r.err,
          c |-> IF r.isMPF \/ r.err # "none"
                THEN [c EXCEPT !.Tree = r.Tree, !.Index = r.Index,
                               !.APP2WritePos = r.APP2WritePos]
                ELSE c]
    ELSE LET r == AttributeData(seg) IN [seg |-> r.seg, err |-> r.err, c |-> c]

\* One turn of copyImage's loop: Scan, ProcessAPP2 for an APP2 segment,
\* Dump, and the break after EOI.
CopyStep ==
  /\ copy.pc = "copying"
  /\ \E s \in {ScanCall(input, scanner["in"])} :
     \E p \in {IF s.err = "none" /\ s.marker = APP2
                THEN ProcessAPP2(copy, s.data, s.pos, wpos)
                ELSE [seg |-> s.data, err |-> "none", c |-> copy]} :
     \E d \in {DumpCall(s.marker, p.seg, s.present)} :
        /\ scanner' = [scanner EXCEPT !["in"] =
             [pos |-> s.pos, imageData |-> s.imageData, cap |-> s.cap, array |-> s.array,
              st |-> IF s.err = "none" THEN "ready" ELSE "failed"]]
        /\ IF s.err # "none"
             THEN copy' = CopyFailed(copy, s.err) /\ UNCHANGED <<output, wpos>>
           ELSE IF p.err # "none"
             THEN copy' = CopyFailed(p.c, p.err) /\ UNCHANGED <<output, wpos>>
           ELSE /\ output' = WriteAt(output, wpos, d.bytes)
                /\ wpos' = wpos + Len(d.bytes)
                /\ copy' = IF d.err # "none" THEN CopyFailed(p.c, d.err)
                           ELSE IF s.marker = EOI THEN CopyDone(p.c)
                           ELSE p.c
  /\ UNCHANGED <<input, res, dst, dumped, stuff, pos, call>>

\* mutant: the reader is moved to the offset less the index's base
IterateSeekRelative(index, i) ==
  IF index.ImageOffsets[i + 1] = Zero32 THEN 0
  ELSE Int64(Sub32(index.ImageOffsets[i + 1], index.Offset))

\* reader.Seek(int64(mpf.ImageOffsets[i]), io.SeekStart): the reader's
\* position for image i (from 0).
IterateSeek(index, i) == Int64(index.ImageOffsets[i + 1])

\* One turn of ImageIterate's loop up to the call of copyImage: Seek to
\* the image's offset and MPFApply, which does nothing for index 0 and
\* records the writer's position for the others. reader.Seek may return an
\* error: ImageIterate returns it, copyMPFImages drops it, and main goes on
\* to rewriteMPF. After the last image copyMPFImages returns. applied
\* holds the calls of MPFApply: the index and length passed and the
\* reader's position.
IterateNext ==
  /\ copy.pc = "iterate"
  /\ IF copy.i >= Len(copy.Index.ImageOffsets)
       THEN copy' = [copy EXCEPT !.pc = "rewrite"] /\ UNCHANGED scanner
       ELSE \/ /\ scanner' = [scanner EXCEPT !["in"] =
                    [NoScanner EXCEPT !.pos = IterateSeek(copy.Index, copy.i)]]
               /\ \E a \in {Append(copy.applied,
                                  [index |-> copy.i,
                                   length |-> copy.Index.ImageLengths[copy.i + 1],
                                   at |-> scanner'["in"].pos])} :
                    copy' = IF copy.i = 0 THEN [copy EXCEPT !.i = 1, !.applied = a]
                            ELSE [copy EXCEPT !.pc = "open", !.img = copy.i, !.applied = a,
                                              !.newOffsets[copy.i + 1] = U32(wpos)]
            \/ /\ copy' = [copy EXCEPT !.pc = "rewrite", !.iterErr = "seek failed"]
               /\ UNCHANGED scanner
  /\ UNCHANGED <<input, output, wpos, res, dst, dumped, stuff, pos, call>>

\* rewriteMPF: the end position is the writer's; positions are set in the
\* tree and the segment is written over the one at APP2WritePos. A panic
\* ends the process, an error ends main (log.Fatal).
Rewrite ==
  /\ copy.pc = "rewrite"
  /\ LET r == RewriteMPF(output, wpos, copy.Tree, copy.APP2WritePos,
                         copy.newOffsets, U32(wpos))
     IN /\ output' = r.output
        /\ wpos' = r.wpos
        /\ copy' = [copy EXCEPT !.pc = IF r.err = "none" THEN "done"
                                        ELSE IF r.err = "panic" THEN "crashed"
                                        ELSE "fatal",
                                !.Tree = IF r.err = "none" THEN r.Tree ELSE @]
  /\ UNCHANGED <<input, scanner, res, dst, dumped, stuff, pos, call>>

\* Scan the first image of s with an MPFGetIndex as processor, up to its
\* index segment.
RECURSIVE ReadIndexFrom(_, _)
ReadIndexFrom(s, sc) ==
  CHOOSE r \in
    { IF c.err # "none" THEN [NoIndex EXCEPT !.err = c.err]
      ELSE IF c.marker = APP2 /\ GetMPFHeader(c.data)
        THEN LET g == GetIndex(c.data, c.pos) IN [g.Index EXCEPT !.err = g.err]
      ELSE IF c.marker = EOI THEN NoIndex
      ELSE ReadIndexFrom(s, [pos |-> c.pos, imageData |-> c.imageData, cap |-> c.cap,
                             array |-> c.array])
      : c \in {ScanCall(s, sc)} } : TRUE

\* The index of the output file is decoded.
ReadBack ==
  /\ copy.pc = "done"
  /\ LET n == NewScannerAt(output, 0) IN
     copy' = [copy EXCEPT !.pc = "verified",
                          !.readIndex = IF n.err # "none" THEN [NoIndex EXCEPT !.err = n.err]
                                        ELSE ReadIndexFrom(output, n)]
  /\ UNCHANGED <<scanVars, stuff, pos, call>>

NextMPF == CopyOpen \/ CopyStep \/ IterateNext \/ Rewrite \/ ReadBack

SpecMPF == InitMPF /\ [][NextMPF]_vars

\* The two-pass rewrite has run to its end, every image of the index has
\* been copied, and the output's index has been read back.
Rewritten ==
  /\ copy.pc = "verified"
  /\ copy.Tree.err = "none"
  /\ copy.iterErr = "none"

\* C5: after the two-pass rewrite of an n-image MPF file in which every
\* image was copied, the index decoded from the output has n offsets: 0 for
\* image 0 and, for every image i > 0, the output position at which image
\* i's SOI header was written.
C5_RewrittenOffsetsAreTrue ==
  Rewritten =>
    /\ copy.readIndex.err = "none"
    /\ Len(copy.readIndex.ImageOffsets) = Len(copy.Index.ImageOffsets)
    /\ Len(copy.soiPos) = Len(copy.Index.ImageOffsets)
    /\ copy.readIndex.ImageOffsets[1] = Zero32
    /\ \A i \in 2..Len(copy.readIndex.ImageOffsets) :
         /\ Int64(copy.readIndex.ImageOffsets[i]) = copy.soiPos[i]
         /\ SubSeq(output, copy.soiPos[i] + 1, copy.soiPos[i] + HeaderSize) = Header

\* three images copied, and the positions in the output differ from those
\* the input's index gave
C5_Witness ==
  /\ Rewritten
  /\ Len(copy.readIndex.ImageOffsets) = 3
  /\ copy.readIndex.ImageOffsets[3] # copy.Index.ImageOffsets[3]
  /\ Int64(copy.readIndex.ImageOffsets[3]) = copy.soiPos[3]

RECURSIVE Sum32(_, _)
Sum32(l, k) == IF k = 0 THEN Zero32 ELSE Add32(l[k], Sum32(l, k - 1))

\* C6 as stated: the lengths in the rewritten index and the primary
\* image's own size add up to the size of the output file.
C6_LengthsPlusPrimaryIsFileSize ==
  (Rewritten /\ copy.readIndex.err = "none" /\ Len(copy.readIndex.ImageOffsets) = 3) =>
    Add32(Sum32(copy.readIndex.ImageLengths, 3), U32(copy.soiPos[2])) = U32(Len(output))

\* C6 amended: after the two-pass rewrite of a 3-image MPF file the first
\* length in the rewritten index is the primary image's own size, and the
\* lengths in the index add up to the size of the output file.
C6_LengthsSumToFileSize ==
  (Rewritten /\ copy.readIndex.err = "none" /\ Len(copy.readIndex.ImageOffsets) = 3) =>
    /\ copy.readIndex.ImageLengths[1] = U32(copy.soiPos[2])
    /\ Sum32(copy.readIndex.ImageLengths, 3) = U32(Len(output))

\* a 3-image file rewritten, its index read back with three lengths
C6_Witness ==
  /\ Rewritten
  /\ copy.readIndex.err = "none"
  /\ Len(copy.readIndex.ImageLengths) = 3
  /\ Len(output) > copy.soiPos[3]
  /\ copy.soiPos[2] > 0

(***************************************************************************)
(* Specification SpecCodec: ReadData, WriteData, ReadMarker and Dump as    *)
(* functions of their arguments. Each behaviour is one call: the arguments *)
(* are drawn in the initial state and the action stores the result.        *)
(***************************************************************************)
\* largest number of fill bytes before a marker
MaxFill == 3

\* n bytes that differ from their neighbours
Pat(n) == [k \in 1..n |-> k % 251]

\* length fields given to ReadData
ReadLengths == {0, 1, 2, 3, 4, 258, 65535}
\* the bytes that follow the length field L: enough, one too few, two more
Remaining(L) == {n \in {L - 3, L - 2, L} : n >= 0} \cup {0}

ReadDataStreams ==
  UNION {{<<L \div 256, L % 256>> \o Pat(n) : n \in Remaining(L)} : L \in ReadLengths}
    \cup {<<>>, <<0>>}

\* payload lengths given to WriteData
WriteLengths == {0, 1, 2, 253, 254, 65533, 65534, 65535}

RECURSIVE Fills(_)
Fills(k) == IF k = 0 THEN <<>> ELSE <<FF>> \o Fills(k - 1)

\* streams given to ReadMarker: 0xFF, fill bytes, a marker byte or the end
\* of the stream, and what follows; streams that start with another byte
ReadMarkerStreams ==
  {<<FF>> \o Fills(k) \o m \o rest :
      k \in 0..MaxFill, m \in {<<>>, <<0>>, <<TEM>>, <<EOI>>, <<COM>>},
      rest \in {<<>>, <<7>>, <<FF, EOI>>}}
    \cup {<<b>> \o rest : b \in {0, 1, EOI}, rest \in {<<>>, <<FF>>, <<EOI>>, <<FF, EOI>>}}
    \cup {<<>>}

DumpMarkers == {0, TEM, RST0, EOI, SOS, APP0, COM}
\* present = FALSE is a nil slice; the longest buffer is too long for a
\* segment and is given with the segment markers only
DumpData(m) ==
  {[present |-> FALSE, buf |-> <<>>]} \cup
  {[present |-> TRUE, buf |-> b] :
     b \in {<<>>, <<1>>, <<FF>>, <<FF, 0>>, <<1, FF, 2, FF>>, Pat(20)}
            \cup (IF m = 0 THEN {} ELSE {Pat(65534), Pat(65535)})}

NoCall == [op |-> "idle"]

InitCodec ==
  /\ call \in
       {[op |-> "ReadData", s |-> s, done |-> FALSE, out |-> NoCall] : s \in ReadDataStreams}
       \cup {[op |-> "WriteData", buf |-> Pat(n), done |-> FALSE, out |-> NoCall] :
               n \in WriteLengths}
       \cup {[op |-> "ReadMarker", s |-> s, done |-> FALSE, out |-> NoCall] :
               s \in ReadMarkerStreams}
       \cup UNION {{[op |-> "Dump", marker |-> m, buf |-> d.buf, present |-> d.present,
                     done |-> FALSE, out |-> NoCall] : d \in DumpData(m)} :
                   m \in DumpMarkers}
  /\ input = <<>>
  /\ output = <<>>
  /\ wpos = 0
  /\ scanner = [id \in Ids |-> NoScanner]
  /\ res = [id \in Ids |-> <<>>]
  /\ dst = "none"
  /\ dumped = 0
  /\ stuff = [phase |-> "idle"]
  /\ copy = [pc |-> "idle"]
  /\ pos = [phase |-> "idle"]

\* ReadData(reader, buf) with the reader at the start of the stream and
\* the Scanner's buffer
CallReadData ==
  /\ call.op = "ReadData" /\ ~call.done
  /\ call' = [call EXCEPT !.done = TRUE, !.out = ReadData(call.s, 0, ScannerBufSize, <<>>)]
  /\ UNCHANGED <<scanVars, stuff, copy, pos>>

\* WriteData(writer, buf)
CallWriteData ==
  /\ call.op = "WriteData" /\ ~call.done
  /\ call' = [call EXCEPT !.done = TRUE, !.out = WriteData(call.buf)]
  /\ UNCHANGED <<scanVars, stuff, copy, pos>>

\* ReadMarker(reader, buf) with the reader at the start of the stream
CallReadMarker ==
  /\ call.op = "ReadMarker" /\ ~call.done
  /\ call' = [call EXCEPT !.done = TRUE, !.out = ReadMarker(call.s, 0)]
  /\ UNCHANGED <<scanVars, stuff, copy, pos>>

\* dumper.Dump(marker, buf)
CallDump ==
  /\ call.op = "Dump" /\ ~call.done
  /\ call' = [call EXCEPT !.done = TRUE,
                          !.out = DumpCall(call.marker, call.buf, call.present)]
  /\ UNCHANGED <<scanVars, stuff, copy, pos>>

NextCodec == CallReadData \/ CallWriteData \/ CallReadMarker \/ CallDump

SpecCodec == InitCodec /\ [][NextCodec]_vars

\* ReadData has been called on a stream that holds a length field.
ReadDataCalled == call.op = "ReadData" /\ call.done /\ Len(call.s) >= 2
\* the value of the length field
LengthField == call.s[1] * 256 + call.s[2]

\* C11: given a length field of 0 or 1, ReadData returns an error to its
\* caller: it does not abort the program and returns no payload.
C11_ShortLengthIsAnError ==
  (ReadDataCalled /\ LengthField < 2) =>
    /\ call.out.err \notin {"none", "panic"}
    /\ ~call.out.present

\* C12: for a length field L from 2 to 65535 with at least L - 2 bytes
\* after it, ReadData consumes the length field and exactly L - 2 bytes and
\* returns those bytes, an empty payload and no error for L = 2; with fewer
\* than L - 2 bytes after it, ReadData returns an error.
C12_ReadDataReadsLengthMinusTwo ==
  (ReadDataCalled /\ LengthField >= 2) =>
    IF Len(call.s) >= LengthField
      THEN /\ call.out.err = "none"
           /\ call.out.present
           /\ call.out.pos = LengthField
           /\ call.out.data = SubSeq(call.s, 3, LengthField)
           /\ LengthField = 2 => call.out.data = <<>>
      ELSE call.out.err \notin {"none", "panic"}

\* the largest length field has been read with bytes left over, and the
\* length field 2 has given an empty payload
C12_Witness ==
  /\ ReadDataCalled
  /\ \/ /\ LengthField = 65535
        /\ Len(call.s) > LengthField
        /\ Len(call.out.data) = 65533
        /\ call.out.err = "none"
     \/ /\ LengthField = 2
        /\ Len(call.s) > 2
        /\ call.out.present
        /\ call.out.data = <<>>

WriteDataCalled == call.op = "WriteData" /\ call.done

\* C13: WriteData with a payload of P <= 65533 bytes writes P + 2 as two
\* bytes, high byte first, and then the payload; with P >= 65534 it
\* returns the too-long error and writes nothing.
C13_WriteDataLimit ==
  WriteDataCalled =>
    LET P == Len(call.buf) IN
    IF P <= 65533
      THEN /\ call.out.err = "none"
           /\ call.out.bytes = <<(P + 2) \div 256, (P + 2) % 256>> \o call.buf
      ELSE /\ call.out.err = "writeData: data is too long"
           /\ call.out.bytes = <<>>

\* a payload of 65534 bytes has been refused
C13_Witness ==
  /\ WriteDataCalled
  /\ Len(call.buf) = 65534
  /\ call.out.err # "none"

ReadMarkerCalled == call.op = "ReadMarker" /\ call.done

\* the index (from 1) of the first byte of s after index k that is not 0xFF,
\* or 0
RECURSIVE FirstNonFill(_, _)
FirstNonFill(s, k) ==
  IF k >= Len(s) THEN 0
  ELSE IF s[k + 1] # FF THEN k + 1
  ELSE FirstNonFill(s, k + 1)

\* The stream starts with 0xFF, k >= 0 fill bytes and a byte m that is not
\* 0xFF: ReadMarker consumes those k + 2 bytes, returns m when m is not 0
\* and the invalid-marker error when it is.
MarkerAfterFill ==
  (ReadMarkerCalled /\ Len(call.s) >= 1 /\ call.s[1] = FF /\ FirstNonFill(call.s, 1) > 0) =>
    LET at == FirstNonFill(call.s, 1) IN
    /\ call.out.pos = at
    /\ IF call.s[at] = 0 THEN call.out.err = "Invalid marker 0"
       ELSE call.out.err = "none" /\ call.out.marker = call.s[at]

\* C14 as stated: ... and when the first byte is not 0xFF, ReadMarker
\* returns the 0xFF-expected error.
C14_NotFFIsExpectedFFError ==
  /\ MarkerAfterFill
  /\ (ReadMarkerCalled /\ Len(call.s) >= 1 /\ call.s[1] # FF) =>
       call.out.err = "0xFF expected in marker"

\* C14 amended: ... and when the first byte is not 0xFF, ReadMarker returns
\* the 0xFF-expected error if another byte follows it, and the reader's
\* unexpected-EOF error if the stream ends after it.
C14_NotFFThenSecondByte ==
  /\ MarkerAfterFill
  /\ (ReadMarkerCalled /\ Len(call.s) >= 1 /\ call.s[1] # FF) =>
       IF Len(call.s) >= 2 THEN call.out.err = "0xFF expected in marker"
       ELSE call.out.err = "ErrUnexpectedEOF"

\* a marker has been returned after three fill bytes, with bytes left over
C14_Witness ==
  /\ ReadMarkerCalled
  /\ Len(call.s) > 5
  /\ SubSeq(call.s, 1, 5) = <<FF, FF, FF, FF, EOI>>
  /\ call.out.marker = EOI
  /\ call.out.pos = 5

DumpCalled == call.op = "Dump" /\ call.done

\* C15: Dump with marker 0 writes the byte-stuffed data and no marker
\* bytes; with another marker it writes 0xFF and the marker byte, followed
\* by the length field and the payload exactly when the data is not nil: a
\* payload that is empty but not nil is written as the length field 0x0002.
C15_DumpWrites ==
  (DumpCalled /\ call.out.err = "none") =>
    LET n == Len(call.buf) + 2 IN
    IF call.marker = 0 THEN call.out.bytes = Stuffed(call.buf)
    ELSE IF call.present
      THEN /\ call.out.bytes = <<FF, call.marker, n \div 256, n % 256>> \o call.buf
           /\ call.buf = <<>> => call.out.bytes = <<FF, call.marker, 0, 2>>
    ELSE call.out.bytes = <<FF, call.marker>>

\* an empty payload that is not nil has been dumped
C15_Witness ==
  /\ DumpCalled
  /\ call.marker = COM
  /\ call.present
  /\ call.buf = <<>>
  /\ call.out.bytes = <<FF, COM, 0, 2>>

(***************************************************************************)
(* Properties of SpecStuff: the end of the scan data                       *)
(***************************************************************************)
\* the first byte of f that is not 0xFF, or 0
FirstMarkerByte(f) == IF FirstNonFill(f, 0) = 0 THEN 0 ELSE f[FirstNonFill(f, 0)]

\* C16: when the scan data is followed by 0xFF and a byte other than 0x00,
\* ReadImageData returns the unstuffed bytes before that 0xFF, without it,
\* and leaves the reader at that 0xFF, however many escaped pairs came
\* before; the next Scan returns the marker that ended the scan data.
C16_ReaderLeftAtMarker ==
  (stuff.phase = "read" /\ RealMarker(stuff.follower)) =>
    /\ stuff.read.err = "none"
    /\ stuff.read.data = stuff.S
    /\ stuff.read.pos = Len(stuff.prelude) + Len(stuff.written)
    /\ StuffStream[stuff.read.pos + 1] = FF
    /\ StuffStream[stuff.read.pos + 2] # 0
    /\ (stuff.next.err # "not scanned" /\ FirstMarkerByte(stuff.follower) # 0) =>
         /\ stuff.next.err = "none"
         /\ stuff.next.marker = FirstMarkerByte(stuff.follower)

\* three escaped pairs were read over block boundaries before the marker,
\* and the next Scan has returned the marker
C16_Witness ==
  /\ stuff.phase = "read"
  /\ stuff.bs = 2
  /\ stuff.follower = <<FF, RST0>>
  /\ Len(stuff.written) - Len(stuff.S) = 3
  /\ stuff.read.pos = Len(stuff.prelude) + Len(stuff.S) + 3
  /\ stuff.next.err = "none"
  /\ stuff.next.marker = RST0

\* C20: if the stream ends in the scan data before a terminating marker,
\* a lone 0xFF as last byte of the stream included, ReadImageData
\* terminates and returns an error.
C20_TruncatedScanDataIsAnError ==
  (stuff.phase = "read" /\ stuff.follower \in {<<>>, <<FF>>}) =>
    stuff.read.err \notin {"none", "hang"}

(***************************************************************************)
(* Specification SpecIndex: MPFIndexFromTIFF as a function of the tree and *)
(* the base offset. The tree has an image count and an entry table of up   *)
(* to MaxImages entries, the last of them possibly a byte short.           *)
(***************************************************************************)
\* declared image counts: small ones, 2^28, 2^28 + 1 and 2^32 - 1
Counts ==
  {U32(c) : c \in 0..(MaxImages + 1)} \cup {<<4096, 0>>, <<4096, 1>>, <<65535, 65535>>}
\* relative offsets: 0, 8, 2^31 and 2^32 - 8
RelValues == {Zero32, U32(8), <<32768, 0>>, <<65535, 65528>>}
\* base offsets: 0, 10 and 2^31
BaseValues == {Zero32, U32(10), <<32768, 0>>}

RECURSIVE RelLists(_)
RelLists(n) ==
  IF n = 0 THEN {<<>>}
  ELSE LET shorter == RelLists(n - 1) IN
       shorter \cup {l \o <<v>> : l \in shorter, v \in RelValues}

\* The tree: the count field and the entry table without its last cut bytes.
IndexNode(order, count, rels, cut) ==
  LET table == EntryTable(rels, [k \in 1..Len(rels) |-> U32(100 + k)], 1, order)
      data == SubSeq(table, 1, IF Len(table) >= cut THEN Len(table) - cut ELSE 0)
  IN [Order |-> order,
      Fields |-> << [Tag |-> MPFNumberOfImages, Type |-> TypeLONG, Count |-> 1,
                     Data |-> LongBytes(count, order)],
                    [Tag |-> MPFEntry, Type |-> TypeUNDEFINED, Count |-> Len(data),
                     Data |-> data] >>,
      err |-> "none"]

\* distances of an image from the base offset: 8 and 2^31 - 1
Distances == {U32(8), <<32767, 65535>>}
\* image lengths: 5 and 2^32 - 1
LengthValues == {U32(5), <<65535, 65535>>}

\* the lists of n absolute offsets: 0 and then offsets above the base
RECURSIVE AbsLists(_, _)
AbsLists(n, base) ==
  IF n = 1 THEN {<<Zero32>>}
  ELSE {l \o <<Add32(base, d)>> : l \in AbsLists(n - 1, base), d \in Distances}

\* an MPFIndex of n images with the given base offset
Indexes(n, base) ==
  {[Offset |-> base, ImageOffsets |-> offs, ImageLengths |-> lens, err |-> "none"] :
     offs \in AbsLists(n, base), lens \in [1..n -> LengthValues]}

\* PutToTiff of an index of n images into a tree that declares n images
\* and has an entry table of n + extra entries
PutCalls ==
  UNION {[op : {"PutToTiff"}, order : Orders, mpf : Indexes(n, base), extra : 0..1,
          step : {"put"}, done : {FALSE}, node : {NoTree}, out : {NoIndex}] :
           n \in 1..MaxImages, base \in BaseValues}

InitIndex ==
  /\ call \in [op : {"MPFIndexFromTIFF"}, order : Orders, count : Counts,
               rels : RelLists(MaxImages), cut : 0..1, base : BaseValues,
               done : {FALSE}, out : {NoIndex}]
            \cup PutCalls
  /\ input = <<>>
  /\ output = <<>>
  /\ wpos = 0
  /\ scanner = [id \in Ids |-> NoScanner]
  /\ res = [id \in Ids |-> <<>>]
  /\ dst = "none"
  /\ dumped = 0
  /\ stuff = [phase |-> "idle"]
  /\ copy = [pc |-> "idle"]
  /\ pos = [phase |-> "idle"]

\* MPFIndexFromTIFF(node, offset)
CallIndexFromTIFF ==
  /\ call.op = "MPFIndexFromTIFF" /\ ~call.done
  /\ call' = [call EXCEPT !.done = TRUE,
                !.out = MPFIndexFromTIFF(IndexNode(call.order, call.count, call.rels, call.cut),
                                         call.base)]
  /\ UNCHANGED <<scanVars, stuff, copy, pos>>

\* the tree handed to PutToTiff
PutNode ==
  LET n == Len(call.mpf.ImageOffsets) IN
  IndexNode(call.order, U32(n), OldRels(n + call.extra), 0)

\* mpf.PutToTiff(node)
CallPutToTiff ==
  /\ call.op = "PutToTiff" /\ call.step = "put"
  /\ call' = [call EXCEPT !.step = "read", !.node = PutToTiff(call.mpf, PutNode)]
  /\ UNCHANGED <<scanVars, stuff, copy, pos>>

\* MPFIndexFromTIFF(node, mpf.Offset) of the tree PutToTiff has changed
CallReadIndex ==
  /\ call.op = "PutToTiff" /\ call.step = "read"
  /\ call.node.err = "none"
  /\ call' = [call EXCEPT !.step = "done", !.done = TRUE,
                !.out = MPFIndexFromTIFF(call.node, call.mpf.Offset)]
  /\ UNCHANGED <<scanVars, stuff, copy, pos>>

NextIndexCall == CallIndexFromTIFF \/ CallPutToTiff \/ CallReadIndex

SpecIndex == InitIndex /\ [][NextIndexCall]_vars

IndexCalled == call.op = "MPFIndexFromTIFF" /\ call.done
\* the number of bytes in the entry table
TableBytes == IF 16 * Len(call.rels) >= call.cut THEN 16 * Len(call.rels) - call.cut ELSE 0
\* the table holds fewer than 16 bytes for each declared image
TableTooShort == call.count[1] > 0 \/ TableBytes < 16 * call.count[2]
\* the entries the index declares that stand in the table, whole or cut
Declared == {i \in 1..Len(call.rels) : call.count[1] > 0 \/ i <= call.count[2]}

\* C17: for every declared image count c in the 32-bit range,
\* MPFIndexFromTIFF returns the table-too-short error when the entry table
\* holds fewer than 16 * c bytes, and so reads no entry beyond its end.
C17_ShortTableIsAnError ==
  (IndexCalled /\ call.count # Zero32 /\ TableTooShort) =>
    call.out.err = "MPF Entry doesn't have 16 bytes for each image"

\* r + b fits in 32 bits
Fits(r, b) == r[1] + b[1] + (r[2] + b[2]) \div Half < Half

\* C18: MPFIndexFromTIFF returns an error for every index in which entry 0
\* has a relative offset other than 0 or an entry after it has the relative
\* offset 0; it accepts an index only when its first entry, and no other,
\* has the relative offset 0.
C18_OnlyFirstOffsetZero ==
  IndexCalled =>
    /\ (\E i \in Declared : (i = 1) # (call.rels[i] = Zero32)) =>
         call.out.err \notin {"none", "panic"}
    /\ call.out.err = "none" =>
         /\ Len(call.out.ImageOffsets) = call.count[2]
         /\ call.count[1] = 0
         /\ \A i \in 1..call.count[2] : (i = 1) = (call.rels[i] = Zero32)

\* three entries, the last with the relative offset 0, have been rejected
C18_Witness ==
  /\ IndexCalled
  /\ call.count = U32(3)
  /\ call.cut = 0
  /\ Len(call.rels) = 3
  /\ call.rels[1] = Zero32 /\ call.rels[2] = U32(8) /\ call.rels[3] = Zero32
  /\ call.out.err = "Only the first image should have an MPF offset of zero"

\* entry i is as it should be: its offset is 0 if it is the first and
\* else not 0, and the absolute offset fits in 32 bits
GoodEntry(i) ==
  /\ (i = 1) = (call.rels[i] = Zero32)
  /\ Fits(call.rels[i], call.base)

\* C19: for an entry with the relative offset r # 0 and the base offset b,
\* MPFIndexFromTIFF reports the absolute offset r + b; when r + b does not
\* fit in 32 bits it returns the offset-overflow error, not the wrapped sum.
C19_AbsoluteOffsets ==
  IndexCalled =>
    /\ call.out.err = "none" =>
         \A i \in 1..Len(call.out.ImageOffsets) :
           call.rels[i] # Zero32 =>
             /\ Fits(call.rels[i], call.base)
             /\ call.out.ImageOffsets[i] =
                  << call.rels[i][1] + call.base[1] + (call.rels[i][2] + call.base[2]) \div Half,
                     (call.rels[i][2] + call.base[2]) % Half >>
    /\ \A i \in Declared :
         (call.rels[i] # Zero32 /\ ~Fits(call.rels[i], call.base)) =>
           /\ call.out.err \notin {"none", "panic"}
           /\ (~TableTooShort /\ \A j \in 1..(i - 1) : GoodEntry(j)) =>
                call.out.err = "MPF offset overflow"

\* an offset above 2^31 has been reported with a base offset other than 0,
\* and a sum of exactly 2^32 has been refused
C19_Witness ==
  /\ IndexCalled
  /\ Len(call.rels) >= 2
  /\ call.count = U32(2)
  /\ call.cut = 0
  /\ \/ /\ call.rels[2] = <<32768, 0>>
        /\ call.base = U32(10)
        /\ call.out.err = "none"
        /\ call.out.ImageOffsets[2] = <<32768, 10>>
     \/ /\ call.rels[2] = <<32768, 0>>
        /\ call.base = <<32768, 0>>
        /\ call.rels[1] = Zero32
        /\ call.out.err = "MPF offset overflow"

(***************************************************************************)
(* ReadSegments and WriteSegments                                          *)
(***************************************************************************)
\* mutant: the Segment keeps the slice Scan returned
NewSegmentShared(marker, buf) == [Marker |-> marker, Data |-> buf, shared |-> TRUE]

\* cpy := make([]byte, len(buf)); copy(cpy, buf); Segment{marker, cpy}.
\* The copy is a slice of its own, empty and not nil when buf is nil.
NewSegment(marker, buf) == [Marker |-> marker, Data |-> buf, shared |-> FALSE]

\* The loop of ReadSegments, with the Scanner in state sc: the segments,
\* the reader position after each Scan call, the array behind scanner.buf
\* and the error.
RECURSIVE ReadSegmentsLoop(_, _, _, _)
ReadSegmentsLoop(s, sc, segments, ends) ==
  CHOOSE r \in
    { IF c.err # "none"
        THEN [segments |-> segments, ends |-> ends, array |-> c.array,
              pos |-> c.pos, err |-> c.err]
      ELSE LET segs == Append(segments, NewSegment(c.marker, c.data)) IN
        IF c.marker = SOS
          THEN [segments |-> segs, ends |-> Append(ends, c.pos), array |-> c.array,
                pos |-> c.pos, err |-> "none"]
          ELSE ReadSegmentsLoop(s, [pos |-> c.pos, imageData |-> c.imageData,
                                    cap |-> c.cap, array |-> c.array],
                                segs, Append(ends, c.pos))
      : c \in {ScanCall(s, sc)} } : TRUE

ReadSegments(s) ==
  LET n == NewScannerAt(s, 0)
  IN IF n.err # "none"
       THEN [segments |-> <<>>, ends |-> <<>>, array |-> n.array, pos |-> n.pos, err |-> n.err]
       ELSE ReadSegmentsLoop(s, [pos |-> n.pos, imageData |-> FALSE, cap |-> n.cap,
                                 array |-> n.array],
                             <<>>, <<>>)

\* The bytes of a Segment's Data: its own, or those now in the array it shares.
SegmentData(seg, array) ==
  IF seg.shared THEN ArrayRead(array, Len(seg.Data)) ELSE seg.Data

\* The loop of WriteSegments from segment i on: the bytes written and the
\* error. No Segment of ReadSegments has a nil Data.
RECURSIVE WriteSegmentsFrom(_, _, _)
WriteSegmentsFrom(segments, array, i) ==
  IF i > Len(segments) THEN [bytes |-> <<>>, err |-> "none"]
  ELSE LET d == DumpCall(segments[i].Marker, SegmentData(segments[i], array), TRUE) IN
       IF d.err # "none" THEN d
       ELSE LET rest == WriteSegmentsFrom(segments, array, i + 1) IN
            [bytes |-> d.bytes \o rest.bytes, err |-> rest.err]

WriteSegments(segments, array) ==
  LET rest == WriteSegmentsFrom(segments, array, 1) IN
  [bytes |-> WriteMarker(SOI) \o rest.bytes, err |-> rest.err]

(***************************************************************************)
(* Specification SpecSegs: ReadSegments on a stream, WriteSegments of the  *)
(* segments it returned, and ReadSegments on what was written.             *)
(***************************************************************************)
SegTokens ==
  { <<FF, COM, 0, 4, 7, 8>>, <<FF, APP0, 0, 3, 9>>, <<FF, FF, COM, 0, 2>>, <<FF, TEM>>,
    <<FF, RST0, 1, FF, 0>>, <<FF, SOS, 0, 3, 5>>, <<FF, EOI>> }

RECURSIVE SegBodies(_)
SegBodies(n) ==
  IF n = 0 THEN {<<>>}
  ELSE LET shorter == SegBodies(n - 1) IN
       shorter \cup {b \o t : b \in shorter, t \in SegTokens}

NoSegments == [segments |-> <<>>, ends |-> <<>>, array |-> <<>>, pos |-> 0, err |-> "not read"]

InitSegs ==
  /\ call \in [op : {"ReadSegments"}, s : {Header \o b : b \in SegBodies(MaxTok)},
               pc : {"read"}, out : {NoSegments},
               written : {[bytes |-> <<>>, err |-> "not written"]}, back : {NoSegments}]
  /\ input = <<>>
  /\ output = <<>>
  /\ wpos = 0
  /\ scanner = [id \in Ids |-> NoScanner]
  /\ res = [id \in Ids |-> <<>>]
  /\ dst = "none"
  /\ dumped = 0
  /\ stuff = [phase |-> "idle"]
  /\ copy = [pc |-> "idle"]
  /\ pos = [phase |-> "idle"]

\* ReadSegments(reader)
CallReadSegments ==
  /\ call.op = "ReadSegments" /\ call.pc = "read"
  /\ call' = [call EXCEPT !.pc = "write", !.out = ReadSegments(call.s)]
  /\ UNCHANGED <<scanVars, stuff, copy, pos>>

\* WriteSegments(writer, segments) of the segments ReadSegments returned
CallWriteSegments ==
  /\ call.op = "ReadSegments" /\ call.pc = "write"
  /\ call.out.err = "none"
  /\ call' = [call EXCEPT !.pc = "reread",
                !.written = WriteSegments(call.out.segments, call.out.array)]
  /\ UNCHANGED <<scanVars, stuff, copy, pos>>

\* ReadSegments on the stream WriteSegments wrote
CallReadBack ==
  /\ call.op = "ReadSegments" /\ call.pc = "reread"
  /\ call.written.err = "none"
  /\ call' = [call EXCEPT !.pc = "done", !.back = ReadSegments(call.written.bytes)]
  /\ UNCHANGED <<scanVars, stuff, copy, pos>>

NextSegs == CallReadSegments \/ CallWriteSegments \/ CallReadBack

SpecSegs == InitSegs /\ [][NextSegs]_vars

SegmentsRead == call.op = "ReadSegments" /\ call.pc # "read"
\* the Data of the k-th Segment ReadSegments returned, as the caller sees it
DataOf(k) == SegmentData(call.out.segments[k], call.out.array)
\* the reader position before the k-th Scan call
StartOf(k) == IF k = 1 THEN HeaderSize ELSE call.out.ends[k - 1]

\* C21: after ReadSegments has returned, the Data of the k-th Segment is
\* the payload of the k-th scanned segment: for a marker with a segment
\* the bytes of the stream after its length field, for scan data the
\* unstuffed bytes of the region, and nothing for a marker without segment.
C21_SegmentsOwnTheirData ==
  (SegmentsRead /\ call.out.err # "hang") =>
    \A k \in 1..Len(call.out.segments) :
      LET m == call.out.segments[k].Marker
          e == call.out.ends[k]
          d == DataOf(k)
      IN IF m = 0 THEN d = Unstuff(call.s, StartOf(k), <<>>).data /\ Len(d) > 0
         ELSE IF NoPayload(m) THEN d = <<>> /\ call.s[e] = m
         ELSE /\ d = SubSeq(call.s, e - Len(d) + 1, e)
              /\ call.s[e - Len(d) - 1] * 256 + call.s[e - Len(d)] = Len(d) + 2
              /\ call.s[e - Len(d) - 2] = m

\* ReadSegments has returned four segments, three of them with payloads
\* that differ, read one after the other into the Scanner's buffer
C21_Witness ==
  /\ SegmentsRead
  /\ call.out.err = "none"
  /\ Len(call.out.segments) = 4
  /\ DataOf(1) = <<7, 8>>
  /\ DataOf(2) = <<9>>
  /\ call.out.segments[3].Marker = TEM
  /\ DataOf(4) = <<5>>
  /\ ArrayRead(call.out.array, 2) = <<5, 3>>

SegmentsWritten == call.op = "ReadSegments" /\ call.pc \in {"reread", "done"}

\* The bytes Dump writes for the pairs Scan returned for segments i and on:
\* Scan returns a nil slice with a marker that has no segment.
RECURSIVE DumpOfScanned(_)
DumpOfScanned(i) ==
  IF i > Len(call.out.segments) THEN <<>>
  ELSE LET m == call.out.segments[i].Marker IN
       DumpCall(m, DataOf(i), ~NoPayload(m)).bytes \o DumpOfScanned(i + 1)

\* (Marker, Data) of each Segment of a list
Pairs(r) ==
  [k \in 1..Len(r.segments) |->
     [Marker |-> r.segments[k].Marker, Data |-> SegmentData(r.segments[k], r.array)]]

\* C30: for a stream on which ReadSegments succeeds, WriteSegments writes for
\* each segment the bytes Dump writes for the pair Scan returned, a marker
\* read without a segment being written without a length field, and
\* ReadSegments on the written stream returns the same list of segments.
C30_WriteSegmentsRoundTrip ==
  /\ SegmentsWritten =>
       /\ call.written.err = "none"
       /\ call.written.bytes = WriteMarker(SOI) \o DumpOfScanned(1)
  /\ (SegmentsWritten /\ call.pc = "done") =>
       /\ call.back.err = "none"
       /\ Pairs(call.back) = Pairs(call.out)

(***************************************************************************)
(* Properties of Spec: the Scanner's two modes                             *)
(***************************************************************************)
\* C22: in the successful Scan calls of a Scanner, a call returns the
\* raw-data pseudo-marker 0 exactly when the successful call before it
\* returned SOS or a restart marker; every other call returns a marker from
\* 0x01 to 0xFE, and the first call after NewScanner reads a marker.
C22_RawDataFollowsSOSOrRST ==
  \A id \in Ids : \A k \in 1..Len(res[id]) :
    res[id][k].err = "none" =>
      /\ (res[id][k].marker = 0) <=>
           (k > 1 /\ (res[id][k - 1].marker = SOS \/ IsRST(res[id][k - 1].marker)))
      /\ res[id][k].marker # 0 => res[id][k].marker \in 1..254

\* a Scanner has returned SOS, scan data, a restart marker, scan data, EOI
C22_Witness ==
  /\ Len(res["in"]) = 5
  /\ \A k \in 1..5 : res["in"][k].err = "none"
  /\ res["in"][1].marker = SOS
  /\ res["in"][2].marker = 0
  /\ IsRST(res["in"][3].marker)
  /\ res["in"][4].marker = 0
  /\ res["in"][5].marker = EOI

(***************************************************************************)
(* Specification SpecLong: a Scanner on streams whose scan-data region is  *)
(* longer than the Scanner's buffer has room for, so that ReadImageData    *)
(* reads it in several blocks and checkbuf reallocates the buffer. The     *)
(* state holds the parameters of the stream, the Scanner's reader          *)
(* position, mode and capacity, and of each result its marker, length and  *)
(* error; the stream, the buffer's contents and the returned bytes are     *)
(* computed from them.                                                     *)
(***************************************************************************)
\* Lengths around the point where the seventh block no longer fits the
\* buffer NewScanner made, around the buffer's size, and one that makes
\* the reallocated buffer too small in turn.
RunLengths ==
  {6 * blocksize + d : d \in -2..1} \cup {ScannerBufSize, ScannerBufSize + 1}
    \cup {2 * ScannerBufSize}

\* What follows the region: EOI, a restart marker with one byte or with
\* more than a block of scan data, a short segment, a segment with the
\* largest length field and less payload than it announces, and the end
\* of the stream. run is the length of the scan data after pre.
LongFollowers ==
  { [pre |-> <<FF, EOI>>, run |-> 0, post |-> <<>>],
    [pre |-> <<FF, RST0>>, run |-> 1, post |-> <<FF, EOI>>],
    [pre |-> <<FF, RST0>>, run |-> blocksize + 1, post |-> <<FF, EOI>>],
    [pre |-> <<FF, COM, 0, 3, 9>>, run |-> 0, post |-> <<FF, EOI>>],
    [pre |-> <<FF, COM, FF, FF, 1, 2>>, run |-> 0, post |-> <<>>],
    [pre |-> <<>>, run |-> 0, post |-> <<>>] }

\* The stream: header, SOS segment, scan data of c.run bytes without 0xFF
\* (after an escaped 0xFF when c.esc), and the follower.
LongStream(c) ==
  Header \o <<FF, SOS, 0, 2>> \o (IF c.esc THEN <<FF, 0>> ELSE <<>>) \o Pat(c.run)
    \o c.follower.pre \o Pat(c.follower.run) \o c.follower.post

\* The k-th Scan call (k >= 1) on stream s of a Scanner that is in state
\* sc before the first.
RECURSIVE ScanTimes(_, _, _)
ScanTimes(s, sc, k) ==
  IF k = 1 THEN ScanCall(s, sc)
  ELSE CHOOSE r \in
    { ScanTimes(s, [pos |-> c.pos, imageData |-> c.imageData, cap |-> c.cap,
                    array |-> c.array], k - 1)
      : c \in {ScanCall(s, sc)} } : TRUE

InitLong ==
  /\ call \in [op : {"Scanner"}, run : RunLengths, esc : BOOLEAN, follower : LongFollowers,
               st : {"none"}, pos : {0}, imageData : {FALSE}, cap : {0}, results : {<<>>}]
  /\ input = <<>>
  /\ output = <<>>
  /\ wpos = 0
  /\ scanner = [id \in Ids |-> NoScanner]
  /\ res = [id \in Ids |-> <<>>]
  /\ dst = "none"
  /\ dumped = 0
  /\ stuff = [phase |-> "idle"]
  /\ copy = [pc |-> "idle"]
  /\ pos = [phase |-> "idle"]

\* NewScanner(reader) on the stream
LongNewScanner ==
  /\ call.op = "Scanner" /\ call.st = "none"
  /\ \E n \in {NewScannerAt(LongStream(call), 0)} :
       call' = [call EXCEPT !.st = n.st, !.pos = n.pos, !.imageData = n.imageData,
                            !.cap = n.cap]
  /\ UNCHANGED <<scanVars, stuff, copy, pos>>

\* scanner.Scan() by a caller that stops at the first error: the Scanner's
\* reader position, mode and capacity after the call, and the marker,
\* length and error of what it returned.
LongScan ==
  /\ call.op = "Scanner" /\ call.st = "ready"
  /\ \E s \in {LongStream(call)} :
     \E c \in {ScanTimes(s, NewScannerAt(s, 0), Len(call.results) + 1)} :
       call' = [call EXCEPT
                  !.st = IF c.err = "none" THEN "ready"
                         ELSE IF c.err = "hang" THEN "hung" ELSE "failed",
                  !.pos = c.pos, !.imageData = c.imageData, !.cap = c.cap,
                  !.results = Append(@, [marker |-> c.marker, len |-> Len(c.data),
                                         present |-> c.present, err |-> c.err])]
  /\ UNCHANGED <<scanVars, stuff, copy, pos>>

NextLong == LongNewScanner \/ LongScan

SpecLong == InitLong /\ [][NextLong]_vars

\* C27: after NewScanner and any successful Scan calls, marker reads,
\* segment reads and scan-data reads of any size, those that make checkbuf
\* reallocate the buffer included, the Scanner's buffer has a capacity of
\* at least 65533 bytes, so ReadData with the length field 0xFFFF does not
\* slice beyond the capacity.
C27_BufferHoldsLargestSegment ==
  (call.op = "Scanner" /\ call.st = "ready") =>
    /\ call.cap >= ScannerBufSize
    /\ ReadData(<<FF, FF>>, 0, call.cap, <<>>).err # "panic"

\* a Scanner that has read scan data of more than six blocks, for which
\* checkbuf has reallocated its buffer, and a restart marker after it is
\* ready for the next call
C27_Witness ==
  /\ call.op = "Scanner" /\ call.st = "ready"
  /\ Len(call.results) >= 3
  /\ call.results[1].marker = SOS /\ call.results[1].present
  /\ call.results[2].marker = 0
  /\ call.results[2].len > 6 * blocksize
  /\ call.results[3].marker = RST0
  /\ call.cap = 2 * ScannerBufSize

(***************************************************************************)
(* Properties of SpecStuff: block boundaries                               *)
(***************************************************************************)
\* C23: the bytes ReadImageData returns and the position it leaves do not
\* depend on where the block boundaries fall: for each block size, whether
\* an 0xFF, an escape pair or the terminating marker is cut by a boundary
\* or not, the result is that of unstuffing the region in one pass up to
\* its terminating marker.
C23_BlocksDoNotMatter ==
  LET u == Unstuff(StuffStream, Len(stuff.prelude), <<>>) IN
  (stuff.phase = "read" /\ u.at = "marker") =>
    /\ stuff.read.err = "none"
    /\ stuff.read.data = u.data
    /\ stuff.read.pos = u.pos

\* with blocks of two bytes, an 0xFF of the data and the 0xFF of the
\* terminating marker were each the last byte of a block
C23_Witness ==
  /\ stuff.phase = "read"
  /\ stuff.bs = 2
  /\ stuff.S = <<1, FF, 1>>
  /\ stuff.follower = <<FF, RST0>>
  /\ stuff.read.err = "none"
  /\ stuff.read.pos = Len(stuff.prelude) + 4
  /\ stuff.read.data = stuff.S

(***************************************************************************)
(* Properties of SpecIndex: the index MPFIndexFromTIFF returns, and        *)
(* PutToTiff                                                               *)
(***************************************************************************)
\* C24: whenever MPFIndexFromTIFF succeeds, the declared image count n is
\* at least 1, the index has n offsets and n lengths, its first offset is
\* 0 and every other offset is greater than its base Offset.
C24_IndexInvariant ==
  (IndexCalled /\ call.out.err = "none") =>
    /\ call.count # Zero32
    /\ call.count[1] = 0
    /\ Len(call.out.ImageOffsets) = call.count[2]
    /\ Len(call.out.ImageLengths) = call.count[2]
    /\ call.out.Offset = call.base
    /\ call.out.ImageOffsets[1] = Zero32
    /\ \A i \in 2..call.count[2] : Lt32(call.out.Offset, call.out.ImageOffsets[i])

\* an index of three images has been returned with a base offset of 2^31
C24_Witness ==
  /\ IndexCalled
  /\ call.out.err = "none"
  /\ call.count = U32(3)
  /\ call.base = <<32768, 0>>
  /\ Len(call.out.ImageOffsets) = 3
  /\ call.out.ImageOffsets[3] = <<32768, 8>>

PutDone == call.op = "PutToTiff" /\ call.step # "put"
\* the entry table before and after PutToTiff
TableBefore == PutNode.Fields[2].Data
TableAfter == call.node.Fields[2].Data

\* C25: for an index of n images with the first offset 0 and the others
\* above its base, PutToTiff into a tree that declares n images and has at
\* least 16 bytes for each, followed by MPFIndexFromTIFF with the same
\* base, returns the same offsets and lengths; PutToTiff changes only the
\* length word and the offset word of the n entries and not the length of
\* the table.
C25_PutToTiffRoundTrip ==
  /\ PutDone =>
       /\ call.node.err = "none"
       /\ Len(call.node.Fields) = Len(PutNode.Fields)
       /\ call.node.Fields[1] = PutNode.Fields[1]
       /\ Len(TableAfter) = Len(TableBefore)
       /\ \A b \in 1..Len(TableAfter) :
            (b > 16 * Len(call.mpf.ImageOffsets) \/ (b - 1) % 16 \notin 4..11) =>
              TableAfter[b] = TableBefore[b]
  /\ (PutDone /\ call.step = "done") =>
       /\ call.out.err = "none"
       /\ call.out.ImageOffsets = call.mpf.ImageOffsets
       /\ call.out.ImageLengths = call.mpf.ImageLengths

\* three images with a base of 10 have been put into a table of four
\* entries and read back
C25_Witness ==
  /\ PutDone
  /\ call.step = "done"
  /\ call.mpf.Offset = U32(10)
  /\ call.extra = 1
  /\ call.out.err = "none"
  /\ Len(call.out.ImageOffsets) = 3
  /\ call.out.ImageOffsets[2] = U32(18)
  /\ call.out.ImageOffsets[3] = <<32768, 9>>
  /\ call.out.ImageLengths[1] = <<65535, 65535>>
  /\ GetLong(TableAfter, 24, call.order) = U32(8)
  /\ TableAfter # TableBefore

(***************************************************************************)
(* Properties of SpecMPF: ImageIterate                                     *)
(***************************************************************************)
\* ImageIterate has returned
IterateOver == copy.pc \in {"rewrite", "done", "verified"} /\ copy.Tree.err = "none"

\* the value of the 32-bit offset of the image with index i
OffsetOf(i) == copy.Index.ImageOffsets[i + 1][1] * Half + copy.Index.ImageOffsets[i + 1][2]

\* C26: ImageIterate visits the images in the order of their index, from
\* 0 on; for each it has moved the reader to ImageOffsets[i] from the
\* start of the stream and passes i and ImageLengths[i] to the apply
\* function, so that copyImage finds the reader at that offset; at the
\* first error of Seek or of the apply function it returns the error and
\* visits no later image.
C26_IterateInOrder ==
  /\ \A k \in 1..Len(copy.applied) :
       /\ copy.applied[k].index = k - 1
       /\ k <= Len(copy.Index.ImageOffsets)
       /\ copy.applied[k].at = OffsetOf(k - 1)
       /\ copy.applied[k].length = copy.Index.ImageLengths[k]
  /\ \A k \in 2..Len(copy.readAt) :
       /\ k <= Len(copy.applied)
       /\ copy.readAt[k] = OffsetOf(k - 1)
  /\ copy.iterErr # "none" => copy.pc \notin {"iterate", "open", "copying"}
  /\ copy.iterErr = "seek failed" =>
       /\ Len(copy.applied) = copy.i
       /\ copy.i < Len(copy.Index.ImageOffsets)
  /\ copy.iterErr \notin {"none", "seek failed"} =>
       /\ Len(copy.applied) = copy.img + 1
       /\ Len(copy.readAt) = copy.img + 1
  /\ (IterateOver /\ copy.iterErr = "none") =>
       Len(copy.applied) = Len(copy.Index.ImageOffsets)

\* of three images the first two have been visited and the second copied
\* from its offset, the seek to the third has failed, and the third has
\* not been visited
C26_Witness ==
  /\ IterateOver
  /\ copy.iterErr = "seek failed"
  /\ Len(copy.Index.ImageOffsets) = 3
  /\ Len(copy.applied) = 2
  /\ Len(copy.readAt) = 2
  /\ copy.applied[2].at > 0

(***************************************************************************)
(* Properties of SpecCodec: Dump of a segment that is too long             *)
(***************************************************************************)
\* C29: Dump with a marker other than 0 and a payload of 65534 bytes or
\* more returns the too-long error after it has written the two marker
\* bytes: the output ends with a marker without length field and payload.
C29_DumpTooLongLeavesMarker ==
  (DumpCalled /\ call.marker # 0 /\ call.present /\ Len(call.buf) >= 65534) =>
    /\ call.out.err = "writeData: data is too long"
    /\ call.out.bytes = <<FF, call.marker>>

\* Dump of a COM segment of 65534 bytes has failed
C29_Witness ==
  /\ DumpCalled
  /\ call.marker = COM
  /\ Len(call.buf) = 65534
  /\ call.out.err # "none"
  /\ Len(call.out.bytes) = 2

(***************************************************************************)
(* Properties of Spec: the output against the input                        *)
(***************************************************************************)
\* The bytes of s from position p up to position end without the fill
\* bytes of its markers; data says that scan data starts at p. The bytes
\* are those of a stream that has scanned without error up to end.
RECURSIVE WithoutFill(_, _, _, _)
WithoutFill(s, p, end, data) ==
  IF p >= end THEN <<>>
  ELSE IF data
    THEN LET u == Unstuff(s, p, <<>>) IN
         SubSeq(s, p + 1, u.pos) \o WithoutFill(s, u.pos, end, FALSE)
  ELSE LET q == FirstNonFill(s, p + 1)
           m == s[q]
           L == s[q + 1] * 256 + s[q + 2]
       IN IF NoPayload(m) THEN <<FF, m>> \o WithoutFill(s, q, end, IsRST(m))
          ELSE <<FF, m>> \o SubSeq(s, q + 1, q + L) \o WithoutFill(s, q + L, end, m = SOS)

\* every pair Scan has returned from the input has been dumped, and the
\* Scanner has not been called since
InStep ==
  /\ dst \in {"open", "closed"}
  /\ dumped = Len(res["in"])
  /\ scanner["in"].st = "ready"

\* C28: when the input has scanned without error, through EOI at the end,
\* the header NewDumper wrote and the bytes Dump wrote for the scanned
\* pairs are the bytes of the input that were consumed, without the 0xFF
\* fill bytes between the first 0xFF of a marker and its code.
C28_OutputIsInputWithoutFill ==
  InStep =>
    /\ wpos = Len(output)
    /\ output = Header \o WithoutFill(input, HeaderSize, scanner["in"].pos, FALSE)

\* the file with fill bytes has been copied through EOI: the output is
\* three bytes shorter and keeps the 0xFF 0xFF of the payload
C28_Witness ==
  /\ InStep
  /\ dst = "closed"
  /\ input = FillFile
  /\ scanner["in"].pos = Len(input)
  /\ output = <<FF, SOI, FF, COM, 0, 4, FF, FF, FF, SOS, 0, 2, 1, FF, 0, FF, EOI>>

====
